---- MODULE Spec2Model ----
(***************************************************************************)
(* Type-definition acquisition and caching pipeline of the playground:     *)
(*   TypeCache            (src/README.md, lines 121-385: typeCache.ts)      *)
(*   fetchAndAddTypes     (src/src/utils/typeFetcher.ts)                    *)
(*   IntelliSenseManager  (src/src/utils/bundler.ts)                        *)
(*                                                                         *)
(* A JavaScript string is a sequence of one-character strings, so that the *)
(* string functions of the code (replace, startsWith, endsWith, includes)  *)
(* are computed and not assumed.  An async function is cut at its awaits:  *)
(* one action per run-to-completion segment.                               *)
(***************************************************************************)
EXTENDS Integers, Sequences, FiniteSets, TLC

VARIABLES
    localStorage,   \* window.localStorage: key -> stored string
    now,            \* Date.now(), in ms since the start of the observation
    hitCount,       \* TypeCache.hitCount
    missCount,      \* TypeCache.missCount
    cacheCall,      \* the suspended direct call of TypeCache.get / TypeCache.set, if any
    lastOp,         \* what the step just taken did (history)
    ticks,          \* number of clock advances so far
    opCount,        \* number of calls made by the page so far
    visited,        \* globalVFS.visited
    files,          \* globalVFS.files: virtual path -> content
    extraLibs,      \* typescriptDefaults.getExtraLibs(): virtual path -> content
    requests,       \* fetch calls made so far: <<kind, url>> -> number
    loadingQueue,   \* IntelliSenseManager.loadingQueue
    loadedModules,  \* IntelliSenseManager.loadedModules
    loads,          \* the loadLibrary invocations, in call order
    batches,        \* the loadLibraries invocations, in call order
    trail,          \* what was done for each marker and each virtual path, in order (history)
    analyses,       \* the analyzeAndLoadTypes invocations, in call order
    applied,        \* the function called on its own, its argument and its result (history)
    initializePromise,  \* bundler.ts: let initializePromise (0: null, k: the k-th promise made)
    promises,       \* the promises esbuild.initialize has returned: "pending" | "fulfilled" | "rejected"
    bundles,        \* the bundle() invocations, in call order
    intelliSense,   \* IntelliSenseManager: isInitialized, its initialize() calls, the
                    \* compiler options set and the content listeners of the editor model
    preview         \* Preview: the code prop, the srcDoc state, the runs of its effect

cacheVars == <<localStorage, now, hitCount, missCount, cacheCall, lastOp, ticks, opCount>>

walkerVars == <<visited, files, extraLibs, requests, loadingQueue, loadedModules, loads, batches,
                trail, analyses, applied, initializePromise, promises, bundles,
                intelliSense, preview>>

\* the state of the transpiler, of the initialization of the manager and of the preview
bundlerVars == <<initializePromise, promises, bundles, intelliSense, preview>>

vars == <<cacheVars, walkerVars>>

----------------------------------------------------------------------------
(* Bounds of the model *)

MaxTicks == 1
MaxOps == 3
MaxCalls == 2
MaxWalks == 1
MaxAnalyses == 1
MaxMatches == 3
MaxBundles == 3
MaxRoots == 2
MaxResetCalls == 3
MaxEdits == 2
MaxInitCalls == 3
MaxRenders == 3

----------------------------------------------------------------------------
(* JavaScript strings *)

Lower == {"a","b","c","d","e","f","g","h","i","j","k","l","m",
          "n","o","p","q","r","s","t","u","v","w","x","y","z"}
Upper == {"A","B","C","D","E","F","G","H","I","J","K","L","M",
          "N","O","P","Q","R","S","T","U","V","W","X","Y","Z"}
Digit == {"0","1","2","3","4","5","6","7","8","9"}

\* the character class [a-zA-Z0-9]
Alnum == Lower \cup Upper \cup Digit

startsWith(s, p) == Len(p) <= Len(s) /\ SubSeq(s, 1, Len(p)) = p

endsWith(s, p) == Len(p) <= Len(s) /\ SubSeq(s, Len(s) - Len(p) + 1, Len(s)) = p

includes(s, p) == \E i \in 1..(Len(s) - Len(p) + 1) : SubSeq(s, i, i + Len(p) - 1) = p

\* the value undefined / null of an optional string
Undefined == "<undefined>"

----------------------------------------------------------------------------
(* TypeCache: constants *)

\* "ts-types-cache:"
CACHE_PREFIX == <<"t","s","-","t","y","p","e","s","-","c","a","c","h","e",":">>

CACHE_EXPIRY == 24 * 60 * 60 * 1000

MAX_CACHE_SIZE == 50 * 1024 * 1024

\* number of decimal digits JSON.stringify writes for a Date.now() value
TimestampDigits == 13

----------------------------------------------------------------------------
(* Inputs of the cache *)

\* module URLs handed to the cache; the first two differ only in one
\* non-alphanumeric character
CacheUrls == { <<"a",".","b">>, <<"a","/","b">>, <<"c">> }

\* declaration texts and their lengths in JSON-escaped form
Texts == {"X", "BIG"}

TextLength(t) ==
    CASE t = ""    -> 0
      [] t = "X"   -> 1
      [] t = "BIG" -> 30 * 1024 * 1024
      [] OTHER     -> 1

ETags == {"e1", "e2"}

\* the etag option of set (the tag of the first download), or none
ETagOpts == {"e1", Undefined}

\* advances of the clock between two steps: up to the expiry window exactly,
\* and one millisecond past it
TickDeltas == {CACHE_EXPIRY, CACHE_EXPIRY + 1}

----------------------------------------------------------------------------
(* localStorage and JSON *)

removeItem(ls, key) == [k \in (DOMAIN ls) \ {key} |-> ls[k]]

setItem(ls, key, value) == [k \in (DOMAIN ls) \cup {key} |-> IF k = key THEN value ELSE ls[k]]

\* JSON.stringify of a CachedTypeInfo: properties whose value is undefined
\* are left out
JSONstringify(info) ==
    LET fields == {"content", "timestamp"}
                  \cup (IF info.version # Undefined THEN {"version"} ELSE {})
                  \cup (IF info.etag # Undefined THEN {"etag"} ELSE {})
    IN  [f \in fields |-> info[f]]

\* whether JSON.parse accepts the stored string
Parseable(value) == "content" \in DOMAIN value

\* JSON.parse of a stored CachedTypeInfo: a property left out reads undefined
JSONparse(value) ==
    [content   |-> value.content,
     timestamp |-> value.timestamp,
     version   |-> IF "version" \in DOMAIN value THEN value.version ELSE Undefined,
     etag      |-> IF "etag" \in DOMAIN value THEN value.etag ELSE Undefined]

\* value.length of a stored string:
\*   {"content":"...","timestamp":N,"version":"...","etag":"..."}
ValueLength(value) ==
    IF ~Parseable(value) THEN value.garbage
    ELSE 12 + TextLength(value.content) + 1
         + 13 + TimestampDigits
         + (IF "version" \in DOMAIN value THEN 12 + Len(value.version) + 1 ELSE 0)
         + (IF "etag" \in DOMAIN value THEN 9 + Len(value.etag) + 1 ELSE 0)
         + 1

----------------------------------------------------------------------------
(* TypeCache: private helpers *)

\* getCacheKey that drops the URL
getCacheKey_Prefix(url) == CACHE_PREFIX

getCacheKey(url) ==
    LET safePath == [i \in 1..Len(url) |-> IF url[i] \in Alnum THEN url[i] ELSE "_"]
    IN  CACHE_PREFIX \o safePath

CacheKeys(ls) == {k \in DOMAIN ls : startsWith(k, CACHE_PREFIX)}

RECURSIVE SumLengths(_, _)
SumLengths(ls, keys) ==
    IF keys = {} THEN 0
    ELSE LET k == CHOOSE x \in keys : TRUE
         IN  ValueLength(ls[k]) + SumLengths(ls, keys \ {k})

getCurrentCacheSize(ls) == SumLengths(ls, CacheKeys(ls))

\* the orders in which localStorage.key(i) may enumerate the keys
KeyOrders(ls) ==
    LET n == Cardinality(DOMAIN ls)
    IN  {s \in [1..n -> DOMAIN ls] : \A i, j \in 1..n : i # j => s[i] # s[j]}

RemoveAt(s, i) == SubSeq(s, 1, i - 1) \o SubSeq(s, i + 1, Len(s))

\* the scan loop of cleanupOldEntries: removing an undecodable item shifts
\* the remaining keys down while the index still advances
RECURSIVE ScanEntries(_, _, _, _)
ScanEntries(ls, keys, i, entries) ==
    IF i > Len(keys) THEN [ls |-> ls, entries |-> entries]
    ELSE LET key == keys[i] IN
         IF ~startsWith(key, CACHE_PREFIX)
           THEN ScanEntries(ls, keys, i + 1, entries)
         ELSE IF Parseable(ls[key])
           THEN ScanEntries(ls, keys, i + 1,
                            Append(entries, [key |-> key, timestamp |-> ls[key].timestamp]))
         ELSE ScanEntries(removeItem(ls, key), RemoveAt(keys, i), i + 1, entries)

\* entries.sort((a, b) => a.timestamp - b.timestamp), a stable sort
RECURSIVE SortByTimestamp(_)
SortByTimestamp(entries) ==
    IF entries = <<>> THEN <<>>
    ELSE LET n      == Len(entries)
             e      == entries[n]
             sorted == SortByTimestamp(SubSeq(entries, 1, n - 1))
             before == SelectSeq(sorted, LAMBDA x : x.timestamp <= e.timestamp)
             after  == SelectSeq(sorted, LAMBDA x : x.timestamp > e.timestamp)
         IN  before \o <<e>> \o after

\* Math.ceil(n * 0.3)
Ceil30(n) == (3 * n + 9) \div 10

RECURSIVE RemoveKeys(_, _, _)
RemoveKeys(ls, entries, count) ==
    IF count = 0 THEN ls
    ELSE RemoveKeys(removeItem(ls, entries[1].key), Tail(entries), count - 1)

cleanupOldEntries(ls, order) ==
    LET scan     == ScanEntries(ls, order, 1, <<>>)
        sorted   == SortByTimestamp(scan.entries)
        toRemove == Ceil30(Len(sorted))
    IN  RemoveKeys(scan.ls, sorted, toRemove)

\* the enumeration orders that make a difference to ensureCacheSpace
ScanOrders(ls) ==
    IF getCurrentCacheSize(ls) > MAX_CACHE_SIZE THEN KeyOrders(ls) ELSE {<<>>}

ensureCacheSpace(ls, order) ==
    IF getCurrentCacheSize(ls) > MAX_CACHE_SIZE
      THEN cleanupOldEntries(ls, order)
      ELSE ls

\* a response to fetch(url, {method: "HEAD"}) of validateETag: the fetch
\* throws, or a response arrives with some status and some (or no) etag header
ProbeResponses ==
    {[thrown |-> TRUE, ok |-> FALSE, etag |-> Undefined]}
    \cup [thrown : {FALSE}, ok : BOOLEAN, etag : ETags \cup {Undefined}]

validateETag(resp, cachedETag) ==
    IF resp.thrown THEN TRUE ELSE resp.etag = cachedETag

----------------------------------------------------------------------------
(* History record of the step just taken *)

NoResponse == [thrown |-> FALSE, ok |-> FALSE, etag |-> Undefined]

NoOp ==
    [op         |-> "init",      \* which step
     url        |-> <<>>,        \* the moduleUrl argument
     content    |-> Undefined,   \* set: the content argument
     result     |-> Undefined,   \* get: the value returned (Undefined = null)
     found      |-> FALSE,       \* get: a decodable entry was found
     cached     |-> Undefined,   \* get: the content of that entry
     age        |-> 0,           \* get: Date.now() - timestamp at the expiry check
     etag       |-> Undefined,   \* get: the etag of the entry; set: the etag option
     probed     |-> FALSE,       \* get: validateETag was awaited
     resp       |-> NoResponse,  \* get: the response to the probe
     afterSet   |-> Undefined,   \* get: content of the set(url, ..) completed just before
     sizeBefore |-> 0,           \* set: getCurrentCacheSize() on entry
     recLen     |-> 0,           \* set: length of the record to be written
     entries    |-> 0,           \* set: number of decodable entries on entry
     evicted    |-> {},          \* set: keys removed by ensureCacheSpace
     ok         |-> FALSE,       \* set: localStorage.setItem did not throw
     malformed  |-> FALSE,       \* get: the stored string could not be decoded
     before     |-> <<>>]        \* remove, clear: localStorage before the call

NoEntry == [content |-> Undefined, timestamp |-> 0, version |-> Undefined, etag |-> Undefined]

\* no direct call is suspended
NoCall == [op |-> "none", url |-> <<>>, parsed |-> NoEntry, content |-> Undefined,
           etag |-> Undefined, hist |-> NoOp]

----------------------------------------------------------------------------
(* TypeCache.get *)

\* GetSync with the expiry comparison inverted
GetSync_ExpiryInverted(ls, moduleUrl, t) ==
    LET cacheKey == getCacheKey(moduleUrl) IN
    IF cacheKey \notin DOMAIN ls
      THEN [status |-> "miss", ls |-> ls, parsed |-> [content |-> Undefined, timestamp |-> 0,
                                                     version |-> Undefined, etag |-> Undefined]]
    ELSE LET parsedCache == JSONparse(ls[cacheKey]) IN
         IF t - parsedCache.timestamp < CACHE_EXPIRY
           THEN [status |-> "expired", ls |-> removeItem(ls, cacheKey), parsed |-> parsedCache]
         ELSE IF parsedCache.etag # Undefined
           THEN [status |-> "probe", ls |-> ls, parsed |-> parsedCache]
         ELSE [status |-> "hit", ls |-> ls, parsed |-> parsedCache]

\* GetSync without the removeItem of the expiry branch
GetSync_ExpiredKept(ls, moduleUrl, t) ==
    LET cacheKey == getCacheKey(moduleUrl) IN
    IF cacheKey \notin DOMAIN ls
      THEN [status |-> "miss", ls |-> ls, parsed |-> [content |-> Undefined, timestamp |-> 0,
                                                     version |-> Undefined, etag |-> Undefined]]
    ELSE LET parsedCache == JSONparse(ls[cacheKey]) IN
         IF t - parsedCache.timestamp > CACHE_EXPIRY
           THEN [status |-> "expired", ls |-> ls, parsed |-> parsedCache]
         ELSE IF parsedCache.etag # Undefined
           THEN [status |-> "probe", ls |-> ls, parsed |-> parsedCache]
         ELSE [status |-> "hit", ls |-> ls, parsed |-> parsedCache]

\* get up to its first await (or to its return)
\*   status: "miss" | "error" | "expired" | "probe" | "hit"
GetSync(ls, moduleUrl, t) ==
    LET cacheKey == getCacheKey(moduleUrl) IN
    IF cacheKey \notin DOMAIN ls
      THEN [status |-> "miss", ls |-> ls, parsed |-> NoEntry]
    ELSE IF ~Parseable(ls[cacheKey])
      THEN [status |-> "error", ls |-> ls, parsed |-> NoEntry]
    ELSE LET parsedCache == JSONparse(ls[cacheKey]) IN
         IF t - parsedCache.timestamp > CACHE_EXPIRY
           THEN [status |-> "expired", ls |-> removeItem(ls, cacheKey), parsed |-> parsedCache]
         ELSE IF parsedCache.etag # Undefined
           THEN [status |-> "probe", ls |-> ls, parsed |-> parsedCache]
         ELSE [status |-> "hit", ls |-> ls, parsed |-> parsedCache]

\* get that counts a hit whatever the probe says
GetAfterProbe_AlwaysHit(ls, moduleUrl, parsedCache, resp) ==
    IF validateETag(resp, parsedCache.etag)
      THEN [hit |-> TRUE, ls |-> ls, result |-> parsedCache.content]
      ELSE [hit |-> TRUE, ls |-> removeItem(ls, getCacheKey(moduleUrl)), result |-> Undefined]

\* get after await this.validateETag(..)
GetAfterProbe(ls, moduleUrl, parsedCache, resp) ==
    IF validateETag(resp, parsedCache.etag)
      THEN [hit |-> TRUE, ls |-> ls, result |-> parsedCache.content]
      ELSE [hit |-> FALSE, ls |-> removeItem(ls, getCacheKey(moduleUrl)), result |-> Undefined]

\* a direct call get(moduleUrl), to its first await or its return
CacheGet(u) ==
    /\ opCount < MaxOps
    /\ cacheCall = NoCall
    /\ LET g  == GetSync(localStorage, u, now)
           op == [NoOp EXCEPT !.url = u,
                              !.found = g.status \in {"expired", "probe", "hit"},
                              !.malformed = g.status = "error",
                              !.age = IF g.status \in {"expired", "probe", "hit"}
                                        THEN now - g.parsed.timestamp ELSE 0,
                              !.cached = g.parsed.content,
                              !.etag = g.parsed.etag,
                              !.afterSet = IF lastOp.op = "set" /\ lastOp.ok /\ lastOp.url = u
                                             THEN lastOp.content ELSE Undefined]
       IN  /\ localStorage' = g.ls
           /\ IF g.status = "probe"
                THEN /\ cacheCall' = [op |-> "get", url |-> u, parsed |-> g.parsed,
                                       content |-> Undefined, etag |-> Undefined, hist |-> op]
                     /\ lastOp' = [op EXCEPT !.op = "get-await"]
                     /\ UNCHANGED <<hitCount, missCount>>
                ELSE /\ cacheCall' = cacheCall
                     /\ hitCount' = IF g.status = "hit" THEN hitCount + 1 ELSE hitCount
                     /\ missCount' = IF g.status = "hit" THEN missCount ELSE missCount + 1
                     /\ lastOp' = [op EXCEPT !.op = "get",
                                             !.result = IF g.status = "hit"
                                                          THEN g.parsed.content ELSE Undefined]
    /\ opCount' = opCount + 1
    /\ UNCHANGED <<now, ticks>>

\* the probe of a suspended get is answered and the get returns
CacheGetResume(resp) ==
    /\ cacheCall.op = "get"
    /\ LET c == cacheCall
           r == GetAfterProbe(localStorage, c.url, c.parsed, resp)
       IN  /\ localStorage' = r.ls
           /\ hitCount' = IF r.hit THEN hitCount + 1 ELSE hitCount
           /\ missCount' = IF r.hit THEN missCount ELSE missCount + 1
           /\ lastOp' = [c.hist EXCEPT !.op = "get", !.probed = TRUE, !.resp = resp,
                                       !.result = r.result]
    /\ cacheCall' = NoCall
    /\ UNCHANGED <<now, ticks, opCount>>

----------------------------------------------------------------------------
(* TypeCache.set *)

\* a direct call set(moduleUrl, content, {etag}), to the end of
\* await this.ensureCacheSpace()
CacheSet(u, content, etag) ==
    /\ opCount < MaxOps
    /\ cacheCall = NoCall
    /\ \E order \in ScanOrders(localStorage) :
         LET ls == ensureCacheSpace(localStorage, order)
             cacheInfo == [content |-> content, timestamp |-> now,
                           version |-> Undefined, etag |-> etag]
             op == [NoOp EXCEPT !.op = "set-await", !.url = u, !.content = content,
                                !.etag = etag,
                                !.sizeBefore = getCurrentCacheSize(localStorage),
                                !.recLen = ValueLength(JSONstringify(cacheInfo)),
                                !.entries = Cardinality({k \in CacheKeys(localStorage) :
                                                          Parseable(localStorage[k])}),
                                !.evicted = (DOMAIN localStorage) \ (DOMAIN ls)]
         IN  /\ localStorage' = ls
             /\ lastOp' = op
             /\ cacheCall' = [op |-> "set", url |-> u, parsed |-> NoEntry,
                               content |-> content, etag |-> etag, hist |-> op]
    /\ opCount' = opCount + 1
    /\ UNCHANGED <<now, hitCount, missCount, ticks>>

\* set after the await: the record is built and written; setItem may throw
\* (quota exceeded), which set catches
SetWrite(ls, moduleUrl, content, etag, t, ok) ==
    LET cacheKey  == getCacheKey(moduleUrl)
        cacheInfo == [content |-> content, timestamp |-> t,
                      version |-> Undefined, etag |-> etag]
    IN  IF ok THEN setItem(ls, cacheKey, JSONstringify(cacheInfo)) ELSE ls

CacheSetWrite(ok) ==
    /\ cacheCall.op = "set"
    /\ LET c == cacheCall
       IN  /\ localStorage' = SetWrite(localStorage, c.url, c.content, c.etag, now, ok)
           /\ lastOp' = [c.hist EXCEPT !.op = "set", !.ok = ok]
    /\ cacheCall' = NoCall
    /\ UNCHANGED <<now, hitCount, missCount, ticks, opCount>>

----------------------------------------------------------------------------
(* TypeCache.remove, TypeCache.clear *)

remove(ls, moduleUrl) == removeItem(ls, getCacheKey(moduleUrl))

\* clear that empties localStorage
clear_Everything(ls) == [k \in {} |-> ls[k]]

clear(ls) == [k \in (DOMAIN ls) \ CacheKeys(ls) |-> ls[k]]

CacheRemove(u) ==
    /\ opCount < MaxOps
    /\ cacheCall = NoCall
    /\ localStorage' = remove(localStorage, u)
    /\ lastOp' = [NoOp EXCEPT !.op = "remove", !.url = u, !.before = localStorage]
    /\ opCount' = opCount + 1
    /\ UNCHANGED <<now, hitCount, missCount, cacheCall, ticks>>

CacheClear ==
    /\ opCount < MaxOps
    /\ cacheCall = NoCall
    /\ localStorage' = clear(localStorage)
    /\ lastOp' = [NoOp EXCEPT !.op = "clear", !.before = localStorage]
    /\ opCount' = opCount + 1
    /\ UNCHANGED <<now, hitCount, missCount, cacheCall, ticks>>

----------------------------------------------------------------------------
(* The clock *)

Tick(d) ==
    /\ ticks < MaxTicks
    /\ now' = now + d
    /\ ticks' = ticks + 1
    /\ lastOp' = [NoOp EXCEPT !.op = "tick"]
    /\ UNCHANGED <<localStorage, hitCount, missCount, cacheCall, opCount>>

----------------------------------------------------------------------------
(* typeFetcher.ts: string functions *)

\* s.replace(/pat/g, rep) for a literal pattern: every non-overlapping
\* occurrence, left to right
RECURSIVE ReplaceAll(_, _, _)
ReplaceAll(s, pat, rep) ==
    IF Len(s) < Len(pat) THEN s
    ELSE IF SubSeq(s, 1, Len(pat)) = pat
      THEN rep \o ReplaceAll(SubSeq(s, Len(pat) + 1, Len(s)), pat, rep)
      ELSE <<s[1]>> \o ReplaceAll(Tail(s), pat, rep)

\* s.replace(pat, rep) for a string pattern: the first occurrence only
RECURSIVE ReplaceFirst(_, _, _)
ReplaceFirst(s, pat, rep) ==
    IF Len(s) < Len(pat) THEN s
    ELSE IF SubSeq(s, 1, Len(pat)) = pat
      THEN rep \o SubSeq(s, Len(pat) + 1, Len(s))
      ELSE <<s[1]>> \o ReplaceFirst(Tail(s), pat, rep)

\* s.replace(/\?.*$/, ""): s up to its first "?"
RECURSIVE StripQuery(_)
StripQuery(s) ==
    IF s = <<>> \/ s[1] = "?" THEN <<>>
    ELSE <<s[1]>> \o StripQuery(Tail(s))

DTS == <<".","d",".","t","s">>

RECURSIVE CollapseDts(_)
CollapseDts(url) ==
    IF includes(url, DTS \o DTS)
      THEN CollapseDts(ReplaceAll(url, DTS \o DTS, DTS))
      ELSE url

normalizeTypeUrl(url0) ==
    LET url == CollapseDts(url0) IN
    IF endsWith(url, DTS) THEN url
    ELSE IF includes(url, <<"?">>) THEN url
    ELSE IF endsWith(url, <<"/">>) \/ includes(url, <<".","t","s">>) \/ includes(url, <<".","j","s">>) THEN url
    ELSE url \o DTS

ESM_SH == <<"h","t","t","p","s",":","/","/","e","s","m",".","s","h","/">>

NODE_MODULES == <<"f","i","l","e",":","/","/","/","n","o","d","e","_","m","o","d","u","l","e","s","/">>

\* the directory of a URL: up to the last "/" of its path
RECURSIVE DirOf(_)
DirOf(s) ==
    IF s = <<>> \/ s[Len(s)] = "/" THEN s
    ELSE DirOf(SubSeq(s, 1, Len(s) - 1))

\* the origin of a URL: scheme, "://" and host
RECURSIVE OriginFrom(_, _)
OriginFrom(s, i) ==
    IF i > Len(s) \/ s[i] = "/" THEN SubSeq(s, 1, i - 1)
    ELSE OriginFrom(s, i + 1)

\* new URL(ref, base).toString(), for an absolute URL, an absolute path, and
\* a path relative to the directory of base ("./x", "x")
URLresolve(ref, base) ==
    IF startsWith(ref, <<"h","t","t","p","s",":","/","/">>) THEN ref
    ELSE IF startsWith(ref, <<"/">>) THEN OriginFrom(base, 9) \o ref
    ELSE IF startsWith(ref, <<".","/">>) THEN DirOf(StripQuery(base)) \o SubSeq(ref, 3, Len(ref))
    ELSE DirOf(StripQuery(base)) \o ref

\* the marker `package:${specifier}`
PackageMarker(specifier) == <<"p","a","c","k","a","g","e",":">> \o specifier

\* a virtual file path derived from the URL whatever the hint
VirtualPath_UrlOnly(url, packageName) ==
    LET virtualPath == ReplaceFirst(url, ESM_SH, NODE_MODULES) IN
    IF endsWith(virtualPath, DTS) THEN virtualPath
    ELSE StripQuery(virtualPath) \o DTS

\* the virtual file path of processFile
VirtualPath(url, packageName) ==
    IF packageName # <<>>
      THEN NODE_MODULES \o packageName \o <<"/","i","n","d","e","x",".","d",".","t","s">>
      ELSE LET virtualPath == ReplaceFirst(url, ESM_SH, NODE_MODULES) IN
           IF endsWith(virtualPath, DTS) THEN virtualPath
           ELSE StripQuery(virtualPath) \o DTS

\* `file:///node_modules/@types/${packageName}/index.d.ts`
PackagePath(packageName) == NODE_MODULES \o <<"@","t","y","p","e","s","/">> \o packageName \o <<"/","i","n","d","e","x",".","d",".","t","s">>

----------------------------------------------------------------------------
(* The remote side: esm.sh *)

ky == <<"k","y">>
zod == <<"z","o","d">>
vue == <<"v","u","e">>
vapor == <<"@","v","a","p","o","r","-","u","i","/","c","o","r","e">>
axios == <<"a","x","i","o","s">>
dayjs == <<"d","a","y","j","s">>
clsx == <<"c","l","s","x">>

\* the packages esm.sh serves
Packages == {ky, zod, vapor}

\* the X-TypeScript-Types header of the HEAD response for a package
\* (<<>>: no such header)
TypesHeader(specifier) ==
    IF specifier = ky THEN <<"/","v","1","/","k","y",".","d",".","t","s">> ELSE <<>>

URL_KY == <<"h","t","t","p","s",":","/","/","e","s","m",".","s","h","/","v","1","/","k","y",".","d",".","t","s">>
URL_ZOD == <<"h","t","t","p","s",":","/","/","e","s","m",".","s","h","/","z","o","d","?","d","t","s">>
URL_A == <<"h","t","t","p","s",":","/","/","e","s","m",".","s","h","/","v","1","/","a",".","d",".","t","s">>
URL_E == <<"h","t","t","p","s",":","/","/","e","s","m",".","s","h","/","v","1","/","e",".","d",".","t","s">>
URL_E2 == <<"h","t","t","p","s",":","/","/","e","s","m",".","s","h","/","v","1","/","e","?","d","t","s">>
URL_VAPOR == <<"h","t","t","p","s",":","/","/","e","s","m",".","s","h","/","@","v","a","p","o","r","-","u","i","/","c","o","r","e","?","d","t","s">>

\* the declaration files esm.sh serves
FileUrls == {URL_KY, URL_ZOD, URL_A, URL_E, URL_E2, URL_VAPOR}

\* the etag header of the GET response (Undefined: no such header)
ETagHeader(url) == IF url \in {URL_ZOD, URL_E} THEN Undefined ELSE "e1"

\* the body of the GET response
Body(url) ==
    CASE url = URL_KY  -> "KY"
      [] url = URL_ZOD -> "ZOD"
      [] url = URL_A   -> "A"
      [] url = URL_E   -> ""
      [] url = URL_E2  -> ""
      [] url = URL_VAPOR -> "VAPOR"

\* ts.preProcessFile(text).referencedFiles
referencedFiles(text) ==
    CASE text = "KY"    -> << <<".","/","a",".","d",".","t","s">> >>
      [] text = "A"     -> << <<".","/","k","y",".","d",".","t","s">> >>
      [] text = "VAPOR" -> << <<"/","v","1","/","e",".","d",".","t","s">>, <<"/","v","1","/","e","?","d","t","s">> >>
      [] OTHER          -> <<>>

\* ts.preProcessFile(text).importedFiles
importedFiles(text) ==
    CASE text = "KY"  -> << zod >>
      [] text = "ZOD" -> << ky, <<".","/","v","1","/","a">> >>
      [] OTHER        -> <<>>

\* outcomes of a fetch: it throws, or a response arrives that is or is not ok
FetchOutcomes == {"throw", "notok", "ok"}

----------------------------------------------------------------------------
(* fetchAndAddTypes: the shared state its closures act on *)

Count(f, k) == IF k \in DOMAIN f THEN f[k] ELSE 0

\* one more fetch of the given kind ("resolve", "probe", "get") on a URL
Fetch(m, kind, url) ==
    [m EXCEPT !.requests = setItem(m.requests, <<kind, url>>, Count(m.requests, <<kind, url>>) + 1)]

\* the history that is not kept
Untraced == [key \in {<<"-">>} |-> <<>>]

\* one more entry in the history of a marker or of a virtual path
Note(m, key, ev, text) ==
    IF m.trail = Untraced THEN m ELSE
    [m EXCEPT !.trail = setItem(@, key, Append(IF key \in DOMAIN @ THEN @[key] ELSE <<>>,
                                               [ev |-> ev, text |-> text]))]

Frame(fn, arg, packageName, wait) ==
    [fn |-> fn, arg |-> arg, packageName |-> packageName, wait |-> wait,
     todo |-> <<>>, parsed |-> NoEntry, text |-> Undefined]

\* addExtraLib that is called whatever is registered already
ShouldAdd_Always(libs, path, text) == TRUE

\* !existingLib || existingLib.content !== text
ShouldAdd(libs, path, text) == path \notin DOMAIN libs \/ libs[path] # text

\* a registration that replaces every registration made before
AddExtraLib_Fresh(m, path, text) ==
    Note([m EXCEPT !.extraLibs = setItem(<<>>, path, text)], path, "add", text)

\* the registration of text at path with the language service, and its record
AddExtraLib(m, path, text) ==
    IF ShouldAdd(m.extraLibs, path, text)
      THEN Note([m EXCEPT !.extraLibs = setItem(@, path, text)], path, "add", text)
      ELSE Note(m, path, "same", text)

\* packageName && !virtualPath.includes("/dist/")
MirrorWanted(packageName, virtualPath) ==
    packageName # <<>> /\ ~includes(virtualPath, <<"/","d","i","s","t","/">>)

\* processFile from "Create virtual file path" to the preProcessFile call:
\* the registrations
Register(m, url, packageName, text) ==
    LET virtualPath == VirtualPath(url, packageName)
        m1 == Note([m EXCEPT !.files = setItem(@, virtualPath, text)], url, "register", virtualPath)
        m2 == AddExtraLib(m1, virtualPath, text)
    IN  IF MirrorWanted(packageName, virtualPath)
          THEN AddExtraLib(m2, PackagePath(packageName), text)
          ELSE m2

\* the children with the imports taken before the reference paths
Children_ImportsFirst(text) ==
    [i \in 1..Len(importedFiles(text)) |-> [kind |-> "import", fileName |-> importedFiles(text)[i]]]
    \o [i \in 1..Len(referencedFiles(text)) |-> [kind |-> "ref", fileName |-> referencedFiles(text)[i]]]

\* the children of a file in the order processFile visits them
Children(text) ==
    [i \in 1..Len(referencedFiles(text)) |-> [kind |-> "ref", fileName |-> referencedFiles(text)[i]]]
    \o [i \in 1..Len(importedFiles(text)) |-> [kind |-> "import", fileName |-> importedFiles(text)[i]]]

\* the frames a child of the file at url puts on the call stack
ChildFrames(child, url) ==
    IF child.kind = "ref" \/ startsWith(child.fileName, <<".">>)
      THEN << Frame("processFile", normalizeTypeUrl(URLresolve(child.fileName, url)), <<>>, "call") >>
    ELSE IF ~includes(child.fileName, <<"/">>)
      THEN << Frame("fetchEntry", child.fileName, <<>>, "call") >>
    ELSE <<>>

\* markVisited that records nothing
markVisited_Dropped(m, path) == m

\* globalVFS.markVisited(path)
markVisited(m, path) == [m EXCEPT !.visited = @ \cup {path}]

\* isVisited that finds nothing
isVisited_Never(m, path) == FALSE

\* globalVFS.isVisited(path)
isVisited(m, path) == path \in m.visited

\* a call for a visited marker that never returns to its caller
VisitedReturn_Never(rest) == rest \o << Frame("processFile", <<>>, <<>>, "never") >>

\* if (globalVFS.isVisited(..)) return: the caller's stack is what is left
VisitedReturn(rest) == rest

\* Runs the call stack of one fetchAndAddTypes call until its top frame
\* awaits a fetch ("head", "probe", "get") or the stack is empty.  The wait
\* of a frame: "call" (called, nothing run yet), "ready" (processFile holds
\* the text), "loop" (processFile in its dependency loops, or awaiting a
\* child), "child" (fetchEntry awaiting processFile).
RECURSIVE Advance(_, _, _)

\* !text: null and the empty string are falsy
Falsy(text) == text = Undefined \/ text = ""

\* processFile after await globalTypeCache.get(url) returned text: the test
\* if (!text), then await fetch(url) or the registrations
AfterCacheGet(m, rest, top, url, text, t) ==
    IF Falsy(text)
      THEN [m |-> Fetch(Note(m, url, "GET", Undefined), "get", url),
            stack |-> rest \o << [top EXCEPT !.arg = url, !.wait = "get"] >>]
      ELSE Advance(m, rest \o << [top EXCEPT !.arg = url, !.wait = "ready", !.text = text] >>, t)

Advance(m, stack, t) ==
    IF stack = <<>> THEN [m |-> m, stack |-> stack]
    ELSE
    LET top  == stack[Len(stack)]
        rest == SubSeq(stack, 1, Len(stack) - 1)
    IN
    CASE top.wait = "call" /\ top.fn = "fetchEntry" ->
           \* fetchEntry, to await fetch(baseUrl, {method: "HEAD"})
           IF isVisited(m, PackageMarker(top.arg))
             THEN Advance(Note(m, PackageMarker(top.arg), "skip", Undefined),
                          VisitedReturn(rest), t)
             ELSE [m |-> Fetch(Note(markVisited(m, PackageMarker(top.arg)),
                                    PackageMarker(top.arg), "HEAD", Undefined),
                               "resolve", ESM_SH \o top.arg),
                   stack |-> rest \o << [top EXCEPT !.wait = "head"] >>]
      [] top.wait = "call" /\ top.fn = "processFile" ->
           \* processFile, to the await inside globalTypeCache.get or to
           \* await fetch(url)
           LET url == normalizeTypeUrl(top.arg) IN
           IF isVisited(m, url)
             THEN Advance(Note(m, url, "skip", Undefined), VisitedReturn(rest), t)
             ELSE
             LET m1 == Note(markVisited(m, url), url, "lookup", Undefined)
                 g  == GetSync(m.ls, url, t)
             IN
             CASE g.status = "probe" ->
                    [m |-> Fetch(m1, "probe", url),
                     stack |-> rest \o << [top EXCEPT !.arg = url, !.wait = "probe",
                                                      !.parsed = g.parsed] >>]
               [] g.status = "hit" ->
                    AfterCacheGet(Note([m1 EXCEPT !.hit = @ + 1], url, "hit", g.parsed.content),
                                  rest, top, url, g.parsed.content, t)
               [] OTHER ->
                    AfterCacheGet(Note([m1 EXCEPT !.ls = g.ls, !.miss = @ + 1],
                                       url, "absent", Undefined),
                                  rest, top, url, Undefined, t)
      [] top.wait = "ready" ->
           Advance(Register(m, top.arg, top.packageName, top.text),
                   rest \o << [top EXCEPT !.wait = "loop", !.todo = Children(top.text)] >>, t)
      [] top.wait = "loop" ->
           IF top.todo = <<>>
             THEN Advance(m, rest, t)
             ELSE Advance(m, rest \o << [top EXCEPT !.todo = Tail(@)] >>
                             \o ChildFrames(Head(top.todo), top.arg), t)
      [] top.wait = "child" -> Advance(m, rest, t)
      [] OTHER -> [m |-> m, stack |-> stack]

\* fetchEntry that hands processFile no package name
AfterHead_NoHint(m, stack, outcome, t) ==
    LET top  == stack[Len(stack)]
        rest == SubSeq(stack, 1, Len(stack) - 1)
        baseUrl  == ESM_SH \o top.arg
        typesUrl == IF TypesHeader(top.arg) # <<>>
                      THEN URLresolve(TypesHeader(top.arg), baseUrl)
                      ELSE ESM_SH \o top.arg \o <<"?","d","t","s">>
    IN  IF outcome = "ok"
          THEN Advance(Note(m, PackageMarker(top.arg), "HEADok", Undefined),
                       rest \o << [top EXCEPT !.wait = "child"],
                                  Frame("processFile", typesUrl, <<>>, "call") >>, t)
          ELSE Advance(Note(m, PackageMarker(top.arg), "HEADfail", Undefined), rest, t)

\* fetchEntry after await fetch(baseUrl, {method: "HEAD"})
AfterHead(m, stack, outcome, t) ==
    LET top  == stack[Len(stack)]
        rest == SubSeq(stack, 1, Len(stack) - 1)
        baseUrl  == ESM_SH \o top.arg
        typesUrl == IF TypesHeader(top.arg) # <<>>
                      THEN URLresolve(TypesHeader(top.arg), baseUrl)
                      ELSE ESM_SH \o top.arg \o <<"?","d","t","s">>
    IN  IF outcome = "ok"
          THEN Advance(Note(m, PackageMarker(top.arg), "HEADok", Undefined),
                       rest \o << [top EXCEPT !.wait = "child"],
                                  Frame("processFile", typesUrl, top.arg, "call") >>, t)
          ELSE Advance(Note(m, PackageMarker(top.arg), "HEADfail", Undefined), rest, t)

\* processFile after await globalTypeCache.get(url), when get awaited
\* validateETag
AfterProbe(m, stack, resp, t) ==
    LET top  == stack[Len(stack)]
        rest == SubSeq(stack, 1, Len(stack) - 1)
        r    == GetAfterProbe(m.ls, top.arg, top.parsed, resp)
    IN  IF r.hit
          THEN AfterCacheGet(Note([m EXCEPT !.hit = @ + 1], top.arg, "hit", r.result),
                             rest, top, top.arg, r.result, t)
          ELSE AfterCacheGet(Note([m EXCEPT !.ls = r.ls, !.miss = @ + 1],
                                  top.arg, "absent", Undefined),
                             rest, top, top.arg, Undefined, t)

\* processFile after await fetch(url) and await res.text(): the cache write
\* and the rest of the function
\* processFile that gives up when the cache write fails
AfterGet_WriteFailureAborts(m, stack, outcome, order, ok, t) ==
    LET top  == stack[Len(stack)]
        rest == SubSeq(stack, 1, Len(stack) - 1)
        text == Body(top.arg)
        ls   == SetWrite(ensureCacheSpace(m.ls, order), top.arg, text, ETagHeader(top.arg), t, ok)
        m1   == Note(m, top.arg, "GETok", text)
        m2   == Note([m1 EXCEPT !.ls = ls], top.arg, IF ok THEN "set" ELSE "setfail", text)
    IN  IF outcome = "ok" /\ ok
          THEN Advance(m2, rest \o << [top EXCEPT !.wait = "ready", !.text = text] >>, t)
        ELSE IF outcome = "ok"
          THEN Advance(m2, rest, t)
          ELSE Advance(Note(m, top.arg, "GETfail", Undefined), rest, t)

\* processFile whose failed download ends the whole walk
AfterGet_FailureUnwinds(m, stack, outcome, order, ok, t) ==
    LET top  == stack[Len(stack)]
        rest == SubSeq(stack, 1, Len(stack) - 1)
        text == Body(top.arg)
        ls   == SetWrite(ensureCacheSpace(m.ls, order), top.arg, text, ETagHeader(top.arg), t, ok)
        m1   == Note(m, top.arg, "GETok", text)
        m2   == Note([m1 EXCEPT !.ls = ls], top.arg, IF ok THEN "set" ELSE "setfail", text)
    IN  IF outcome = "ok"
          THEN Advance(m2, rest \o << [top EXCEPT !.wait = "ready", !.text = text] >>, t)
          ELSE [m |-> Note(m, top.arg, "GETfail", Undefined), stack |-> <<>>]

AfterGet(m, stack, outcome, order, ok, t) ==
    LET top  == stack[Len(stack)]
        rest == SubSeq(stack, 1, Len(stack) - 1)
        text == Body(top.arg)
        etag == ETagHeader(top.arg)
        ls   == SetWrite(ensureCacheSpace(m.ls, order), top.arg, text, etag, t, ok)
        m1   == Note(m, top.arg, "GETok", text)
        m2   == Note([m1 EXCEPT !.ls = ls], top.arg, IF ok THEN "set" ELSE "setfail", text)
    IN  IF outcome = "ok"
          THEN Advance(m2, rest \o << [top EXCEPT !.wait = "ready", !.text = text] >>, t)
          ELSE Advance(Note(m, top.arg, "GETfail", Undefined), rest, t)

----------------------------------------------------------------------------
(* IntelliSenseManager *)

react == <<"r","e","a","c","t">>
reactDom == <<"r","e","a","c","t","-","d","o","m">>

\* config.supportedLibraries: a configuration that names eight entries of the
\* default list
supportedLibraries == {react, reactDom, ky, zod, vapor, axios, dayjs, clsx}

\* the names callers ask for
LibraryNames == {ky, zod, vue}

\* the arguments of loadLibraries: two supported names, and a supported with
\* an unsupported name
NameLists == { <<zod, ky>>, <<ky, vue>> }

RECURSIVE SumCounts(_, _)
SumCounts(f, keys) ==
    IF keys = {} THEN 0
    ELSE LET k == CHOOSE x \in keys : TRUE
         IN  f[k] + SumCounts(f, keys \ {k})

\* the number of fetch calls made so far
TotalRequests(m) == SumCounts(m.requests, DOMAIN m.requests)

\* One loadLibrary invocation:
\*   name, batch     the argument; the loadLibraries call it belongs to (0: none)
\*   stack           the call stack of its fetchAndAddTypes call
\*   status          "running" | "returned"
\*   result          the value returned
\*   invoked         fetchAndAddTypes was called
\*   wasLoaded, wasLoading   the name was in loadedModules / loadingQueue at the call
\*   issued          fetch calls made before the call first suspended or returned
\*   touched         the call changed loadingQueue, loadedModules, visited or
\*                   localStorage before it first suspended or returned
\*   entryFailed     the entry resolution or the entry declaration fetch failed
\*   loadedAfter, loadingAfter   at its return, the name was in loadedModules / loadingQueue
LoadRecord(name, batch) ==
    [name |-> name, batch |-> batch, stack |-> <<>>, status |-> "returned",
     result |-> FALSE, invoked |-> FALSE, wasLoaded |-> FALSE, wasLoading |-> FALSE,
     issued |-> 0, touched |-> FALSE, entryFailed |-> FALSE,
     loadedAfter |-> FALSE, loadingAfter |-> FALSE]

\* the early-return test without its loadingQueue half
IsLoadedOrLoading_LoadedOnly(s, libraryName) == libraryName \in s.loadedModules

\* this.loadedModules.has(libraryName) || this.loadingQueue.has(libraryName)
IsLoadedOrLoading(s, libraryName) ==
    libraryName \in s.loadedModules \/ libraryName \in s.loadingQueue

\* the allow-list test that lets every name through
IsSupported_Any(libraryName) == TRUE

\* this.config.supportedLibraries.includes(libraryName)
IsSupported(libraryName) == libraryName \in supportedLibraries

\* loadLibrary(libraryName) to its first suspension or its return, on
\* s = [m, loadingQueue, loadedModules, loads]
loadLibraryCall(s, libraryName, batch, t) ==
    LET rec == LoadRecord(libraryName, batch) IN
    IF IsLoadedOrLoading(s, libraryName)
      THEN [s EXCEPT !.loads = Append(@, [rec EXCEPT !.result = TRUE])]
    ELSE IF ~IsSupported(libraryName)
      THEN [s EXCEPT !.loads = Append(@, [rec EXCEPT !.result = FALSE])]
    ELSE LET a == Advance(s.m, << Frame("fetchEntry", libraryName, <<>>, "call") >>, t)
         IN  [s EXCEPT !.m = a.m,
                       !.loadingQueue = @ \cup {libraryName},
                       !.loads = Append(@, [rec EXCEPT !.status = "running",
                                                       !.stack = a.stack,
                                                       !.invoked = TRUE])]

\* the call together with what an observer of it records
loadLibrary(s, libraryName, batch, t) ==
    LET r == loadLibraryCall(s, libraryName, batch, t)
        i == Len(r.loads)
    IN  [r EXCEPT !.loads[i] = [@ EXCEPT
            !.wasLoaded = libraryName \in s.loadedModules,
            !.wasLoading = libraryName \in s.loadingQueue,
            !.loadedAfter = libraryName \in r.loadedModules,
            !.loadingAfter = libraryName \in r.loadingQueue,
            !.issued = TotalRequests(r.m) - TotalRequests(s.m),
            !.touched = \/ r.loadingQueue # s.loadingQueue
                        \/ r.loadedModules # s.loadedModules
                        \/ r.m.visited # s.m.visited
                        \/ r.m.ls # s.m.ls]]

\* the end of loadLibrary that leaves the name in loadingQueue
finishLoad_QueueKept(s, libraryName) ==
    [s EXCEPT !.loadedModules = @ \cup {libraryName}]

\* loadLibrary after await fetchAndAddTypes(..), which never rejects:
\* loadedModules.add(libraryName), and loadingQueue.delete(libraryName) of
\* the finally block
finishLoad(s, libraryName) ==
    [s EXCEPT !.loadedModules = @ \cup {libraryName},
              !.loadingQueue = @ \ {libraryName}]

\* the return of a suspended loadLibrary: return true
loadLibraryResume(s, i) ==
    LET libraryName == s.loads[i].name
        s1 == finishLoad(s, libraryName)
    IN  [s1 EXCEPT !.loads[i] = [@ EXCEPT
               !.status = "returned", !.result = TRUE,
               !.loadedAfter = libraryName \in s1.loadedModules,
               !.loadingAfter = libraryName \in s1.loadingQueue]]

\* libraryNames.map(async (lib) => ... await this.loadLibrary(lib)): the
\* calls are made in order, each to its first suspension
RECURSIVE MapLoadLibrary(_, _, _, _, _)
MapLoadLibrary(s, libraryNames, k, batch, t) ==
    IF k > Len(libraryNames) THEN s
    ELSE MapLoadLibrary(loadLibrary(s, libraryNames[k], batch, t),
                        libraryNames, k + 1, batch, t)

\* the array loadLibraries returns once every member has settled
LoadLibrariesResults(ls, b) ==
    [k \in 1..Len(b.names) |->
        [library |-> b.names[k], success |-> ls[b.members[k]].result]]

----------------------------------------------------------------------------
(* The state of the page *)

Machine ==
    [visited |-> visited, files |-> files, extraLibs |-> extraLibs, ls |-> localStorage,
     hit |-> hitCount, miss |-> missCount, requests |-> requests, trail |-> trail]

ManagerState ==
    [m |-> Machine, loadingQueue |-> loadingQueue, loadedModules |-> loadedModules,
     loads |-> loads]

SetMachine(m) ==
    /\ visited' = m.visited
    /\ files' = m.files
    /\ extraLibs' = m.extraLibs
    /\ localStorage' = m.ls
    /\ hitCount' = m.hit
    /\ missCount' = m.miss
    /\ requests' = m.requests
    /\ trail' = m.trail

SetManagerState(s) ==
    /\ SetMachine(s.m)
    /\ loadingQueue' = s.loadingQueue
    /\ loadedModules' = s.loadedModules
    /\ loads' = s.loads

----------------------------------------------------------------------------
(* Calls of the manager *)

LoadLibrary(libraryName) ==
    /\ opCount < MaxCalls
    /\ SetManagerState(loadLibrary(ManagerState, libraryName, 0, now))
    /\ opCount' = opCount + 1
    /\ UNCHANGED <<batches, analyses, applied, bundlerVars, now, cacheCall, lastOp, ticks>>

LoadLibraries(libraryNames) ==
    /\ opCount < MaxCalls
    /\ LET batch == Len(batches) + 1
           s == MapLoadLibrary(ManagerState, libraryNames, 1, batch, now)
       IN  /\ SetManagerState(s)
           /\ batches' = Append(batches,
                  [names |-> libraryNames,
                   members |-> [k \in 1..Len(libraryNames) |-> Len(loads) + k],
                   status |-> "pending", results |-> <<>>])
    /\ opCount' = opCount + 1
    /\ UNCHANGED <<now, cacheCall, lastOp, ticks, analyses, applied, bundlerVars>>

\* clearCache()
ClearCache ==
    /\ opCount < MaxCalls
    /\ localStorage' = clear(localStorage)
    /\ loadedModules' = {}
    /\ opCount' = opCount + 1
    /\ UNCHANGED <<visited, files, extraLibs, requests, hitCount, missCount, loadingQueue,
                   loads, batches, analyses, applied, bundlerVars, now, cacheCall, lastOp, ticks, trail>>

----------------------------------------------------------------------------
(* Completions of awaited promises *)

Running(i, wait) ==
    /\ i \in 1..Len(loads)
    /\ loads[i].status = "running"
    /\ loads[i].stack # <<>>
    /\ loads[i].stack[Len(loads[i].stack)].wait = wait

\* the HEAD of a fetchEntry is answered
HeadResponse(i, outcome) ==
    /\ Running(i, "head")
    /\ LET stack == loads[i].stack
           top   == stack[Len(stack)]
       IN  /\ outcome = "ok" => top.arg \in Packages
           /\ LET a == AfterHead(Machine, stack, outcome, now)
              IN  /\ SetMachine(a.m)
                  /\ loads' = [loads EXCEPT ![i] = [@ EXCEPT
                         !.stack = a.stack,
                         !.entryFailed = @ \/ (outcome # "ok" /\ Len(stack) = 1)]]
    /\ UNCHANGED <<loadingQueue, loadedModules, batches, analyses, applied, bundlerVars, now, cacheCall, lastOp, ticks, opCount>>

\* the probe of validateETag is answered
ProbeResponse(i, resp) ==
    /\ Running(i, "probe")
    /\ LET a == AfterProbe(Machine, loads[i].stack, resp, now)
       IN  /\ SetMachine(a.m)
           /\ loads' = [loads EXCEPT ![i] = [@ EXCEPT !.stack = a.stack]]
    /\ UNCHANGED <<loadingQueue, loadedModules, batches, analyses, applied, bundlerVars, now, cacheCall, lastOp, ticks, opCount>>

\* the GET of a processFile is answered and its body read
GetResponse(i, outcome, ok) ==
    /\ Running(i, "get")
    /\ LET stack == loads[i].stack
           top   == stack[Len(stack)]
       IN  /\ outcome = "ok" => top.arg \in FileUrls
           /\ \E order \in ScanOrders(localStorage) :
                LET a == AfterGet(Machine, stack, outcome, order, ok, now)
                IN  /\ SetMachine(a.m)
                    /\ loads' = [loads EXCEPT ![i] = [@ EXCEPT
                           !.stack = a.stack,
                           !.entryFailed = @ \/ (outcome # "ok" /\ Len(stack) = 2)]]
    /\ UNCHANGED <<loadingQueue, loadedModules, batches, analyses, applied, bundlerVars, now, cacheCall, lastOp, ticks, opCount>>

\* await fetchAndAddTypes(..) of a loadLibrary completes
LoadLibraryReturn(i) ==
    /\ i \in 1..Len(loads)
    /\ loads[i].status = "running"
    /\ loads[i].stack = <<>>
    /\ SetManagerState(loadLibraryResume(ManagerState, i))
    /\ UNCHANGED <<batches, analyses, applied, bundlerVars, now, cacheCall, lastOp, ticks, opCount>>

\* await Promise.allSettled(..) of a loadLibraries completes
LoadLibrariesReturn(b) ==
    /\ b \in 1..Len(batches)
    /\ batches[b].status = "pending"
    /\ \A k \in 1..Len(batches[b].members) : loads[batches[b].members[k]].status = "returned"
    /\ batches' = [batches EXCEPT ![b] = [@ EXCEPT
           !.status = "done", !.results = LoadLibrariesResults(loads, batches[b])]]
    /\ UNCHANGED <<visited, files, extraLibs, requests, localStorage, hitCount, missCount,
                   loadingQueue, loadedModules, loads, now, cacheCall, lastOp, ticks, opCount,
                   trail, analyses, applied, bundlerVars>>

----------------------------------------------------------------------------
(* The page: one manager, the walker and the cache *)

EmptyStorage == [k \in {} |-> NoEntry]

\* what downloading the given files at time 0 stores
RECURSIVE StoreOf(_)
StoreOf(urls) ==
    IF urls = {} THEN EmptyStorage
    ELSE LET u == CHOOSE x \in urls : TRUE
         IN  SetWrite(StoreOf(urls \ {u}), u, Body(u), ETagHeader(u), 0, TRUE)

\* what an earlier visit of the page has left in localStorage: nothing, or
\* every declaration file
InitialStores == {EmptyStorage, StoreOf(FileUrls)}

\* no function has been called on its own
\* a manager just constructed: isInitialized = false, no initialize() call
\* made, no compiler options set, no listener on the editor model
NotInitialized ==
    [isInitialized |-> FALSE, calls |-> <<>>, compilerOptions |-> 0, listeners |-> 0]

\* a Preview not mounted yet: no code prop, useState(""), no effect run
NotMounted == [code |-> <<>>, srcDoc |-> [code |-> <<>>, kind |-> "empty"], runs |-> <<>>]

NotApplied == [fn |-> "none", arg |-> <<>>, result |-> <<>>, done |-> FALSE]

InitWalker ==
    /\ visited = {}
    /\ files = EmptyStorage
    /\ extraLibs = EmptyStorage
    /\ requests = EmptyStorage
    /\ loadingQueue = {}
    /\ loadedModules = {}
    /\ loads = <<>>
    /\ batches = <<>>
    /\ analyses = <<>>
    /\ applied = NotApplied
    /\ initializePromise = 0
    /\ promises = <<>>
    /\ bundles = <<>>
    /\ intelliSense = NotInitialized
    /\ preview = NotMounted

Init ==
    /\ localStorage \in InitialStores
    /\ now = 0
    /\ hitCount = 0
    /\ missCount = 0
    /\ cacheCall = NoCall
    /\ lastOp = NoOp
    /\ ticks = 0
    /\ opCount = 0
    /\ InitWalker
    /\ trail = Untraced

Next ==
    \/ \E libraryName \in LibraryNames : LoadLibrary(libraryName)
    \/ \E libraryNames \in NameLists : LoadLibraries(libraryNames)
    \/ ClearCache
    \/ \E i \in 1..Len(loads), outcome \in FetchOutcomes : HeadResponse(i, outcome)
    \/ \E i \in 1..Len(loads), resp \in ProbeResponses : ProbeResponse(i, resp)
    \/ \E i \in 1..Len(loads), outcome \in FetchOutcomes : GetResponse(i, outcome, TRUE)
    \/ \E i \in 1..Len(loads) : LoadLibraryReturn(i)
    \/ \E b \in 1..Len(batches) : LoadLibrariesReturn(b)

Spec == Init /\ [][Next]_vars

----------------------------------------------------------------------------
(* The walker called directly, with its history kept *)

\* the packageSpecifier arguments of fetchAndAddTypes
WalkSpecifiers == {ky, zod, vapor}

\* fetchAndAddTypes(packageSpecifier, monaco), to its first awaited fetch
FetchAndAddTypes(packageSpecifier) ==
    /\ opCount < MaxWalks
    /\ LET a == Advance(Machine, << Frame("fetchEntry", packageSpecifier, <<>>, "call") >>, now)
       IN  /\ SetMachine(a.m)
           /\ loads' = Append(loads, [LoadRecord(packageSpecifier, 0) EXCEPT
                                         !.status = "running", !.stack = a.stack,
                                         !.invoked = TRUE])
    /\ opCount' = opCount + 1
    /\ UNCHANGED <<loadingQueue, loadedModules, batches, analyses, applied, bundlerVars, now, cacheCall, lastOp, ticks>>

\* fetchAndAddTypes call i has completed: await fetchEntry(packageSpecifier)
\* resumes, with nothing left to run, as soon as the call stack is empty
WalkDone(i) == i \in 1..Len(loads) /\ loads[i].stack = <<>>

\* what an earlier visit that downloaded some of the files has left
EarlierVisit == StoreOf({URL_A, URL_ZOD, URL_E})

InitWalk ==
    /\ localStorage \in {EmptyStorage, EarlierVisit}
    /\ now = 0
    /\ hitCount = 0
    /\ missCount = 0
    /\ cacheCall = NoCall
    /\ lastOp = NoOp
    /\ ticks = 0
    /\ opCount = 0
    /\ InitWalker
    /\ trail = EmptyStorage

\* the completion of an awaited fetch
WalkResponse ==
    \/ \E i \in 1..Len(loads), outcome \in FetchOutcomes : HeadResponse(i, outcome)
    \/ \E i \in 1..Len(loads), resp \in ProbeResponses : ProbeResponse(i, resp)
    \/ \E i \in 1..Len(loads), outcome \in FetchOutcomes, ok \in BOOLEAN :
          GetResponse(i, outcome, ok)

NextWalk ==
    \/ \E packageSpecifier \in WalkSpecifiers : FetchAndAddTypes(packageSpecifier)
    \/ WalkResponse

SpecWalk == InitWalk /\ [][NextWalk]_vars

\* a fetch of some walk is outstanding: exactly then WalkResponse can be taken
\* (a fetch may always fail)
Outstanding ==
    \E i \in 1..Len(loads) : Running(i, "head") \/ Running(i, "probe") \/ Running(i, "get")

\* every network request eventually returns or fails: weak fairness of
\* WalkResponse, written with its enabling condition Outstanding
RequestsAnswered == ([]<>(~Outstanding)) \/ ([]<><<WalkResponse>>_vars)

SpecWalkLive == SpecWalk /\ RequestsAnswered

----------------------------------------------------------------------------
(* analyzeAndLoadTypes: the imports of the edited code are loaded in batches *)

\* config.maxConcurrentLoads
maxConcurrentLoads == 3

\* chunkArray that puts the whole array in one chunk
chunkArray_Whole(array, chunkSize) == IF array = <<>> THEN <<>> ELSE << array >>

\* array.slice(i, i + chunkSize), i counted from 0
Slice(array, i, j) == SubSeq(array, i + 1, IF j < Len(array) THEN j ELSE Len(array))

\* the loop of chunkArray from index i on
RECURSIVE ChunksFrom(_, _, _)
ChunksFrom(array, chunkSize, i) ==
    IF i < Len(array)
      THEN << Slice(array, i, i + chunkSize) >> \o ChunksFrom(array, chunkSize, i + chunkSize)
      ELSE <<>>

\* chunkArray(array, chunkSize)
chunkArray(array, chunkSize) == ChunksFrom(array, chunkSize, 0)

\* imports.filter(lib => supportedLibraries.includes(lib) &&
\*                       !loadedModules.has(lib) && !loadingQueue.has(lib))
NewLibraries(s, imports) ==
    SelectSeq(imports, LAMBDA lib : IsSupported(lib) /\ ~IsLoadedOrLoading(s, lib))

\* the arrays extractImports(code) returns for the codes edited: built from a
\* Set, so without duplicates
ImportLists == { <<axios, vue, dayjs, vapor, clsx>>, <<clsx, axios>> }

\* the names loaded by other callers while the code is analysed
OtherLoads == {clsx}

\* the matches of /import\s*\{\s*([^}]+)\s*\}\s*from\s*['"]([^'"]+)['"]/g in
\* the codes edited, each code known by its imports: match[1] and match[2]
namedImports(imports) ==
    IF imports = <<axios, vue, dayjs, vapor, clsx>>
      THEN << [names |-> <<"B","u","t","t","o","n",","," ","u","s","e","T","h","e","m","e"," ">>, moduleName |-> vapor],
              [names |-> <<"C","a","r","d">>, moduleName |-> vue] >>
    ELSE IF imports = <<clsx, axios>>
      THEN << [names |-> <<"A","x","i","o","s","E","r","r","o","r",","," ","i","s","A","x","i","o","s","E","r","r","o","r"," ">>, moduleName |-> axios] >>
    ELSE IF imports = <<vue>>
      THEN << [names |-> <<"C","a","r","d">>, moduleName |-> vue] >>
    ELSE <<>>

\* s.split(","), from index i on
RECURSIVE SplitCommaFrom(_, _, _)
SplitCommaFrom(s, i, cur) ==
    IF i > Len(s) THEN << cur >>
    ELSE IF s[i] = "," THEN << cur >> \o SplitCommaFrom(s, i + 1, <<>>)
    ELSE SplitCommaFrom(s, i + 1, Append(cur, s[i]))

\* name.trim(), for the blanks of the codes edited
RECURSIVE Trim(_)
Trim(s) ==
    IF s = <<>> THEN s
    ELSE IF s[1] = " " THEN Trim(Tail(s))
    ELSE IF s[Len(s)] = " " THEN Trim(SubSeq(s, 1, Len(s) - 1))
    ELSE s

\* match[1].split(",").map(name => name.trim()).filter(name => /^[A-Z]/.test(name))
componentNames(names) ==
    LET importedNames == [k \in 1..Len(SplitCommaFrom(names, 1, <<>>)) |->
                            Trim(SplitCommaFrom(names, 1, <<>>)[k])]
    IN  SelectSeq(importedNames, LAMBDA name : name # <<>> /\ name[1] \in Upper)

\* the props type chosen for a component of a module: that of
\* getVaporUIComponentProps for vapor-ui, the module's own <Name>Props for
\* @mui and antd, React.ComponentProps<any> otherwise
propsTypeOf(name, moduleName) ==
    IF includes(moduleName, <<"v","a","p","o","r","-","u","i">>) \/ includes(moduleName, <<"@","v","a","p","o","r","-","u","i">>)
      THEN "vaporUIProps"
    ELSE IF includes(moduleName, <<"@","m","u","i">>) \/ includes(moduleName, <<"a","n","t","d">>)
      THEN "moduleProps"
    ELSE "React.ComponentProps<any>"

\* `file:///node_modules/@types/custom/${componentName}.d.ts`
ComponentPath(componentName) ==
    NODE_MODULES \o <<"@","t","y","p","e","s","/","c","u","s","t","o","m","/">> \o componentName \o DTS

\* registerComponents(componentDefs) for the components of one match: the
\* declaration text registered is known by its props type
RECURSIVE registerComponents(_, _, _)
registerComponents(libs, names, moduleName) ==
    IF names = <<>> THEN libs
    ELSE registerComponents(setItem(libs, ComponentPath(Head(names)),
                                    propsTypeOf(Head(names), moduleName)),
                            Tail(names), moduleName)

\* analyzeAndRegisterComponents(code): the loop over the matches
RECURSIVE RegisterMatches(_, _)
RegisterMatches(libs, matches) ==
    IF matches = <<>> THEN libs
    ELSE RegisterMatches(registerComponents(libs, componentNames(Head(matches).names),
                                            Head(matches).moduleName),
                         Tail(matches))

\* analyzeAndRegisterComponents(code), code known by its imports
analyzeAndRegisterComponents(libs, imports) == RegisterMatches(libs, namedImports(imports))

\* One analyzeAndLoadTypes invocation:
\*   imports, newLibraries, chunks   the three arrays of the call
\*   batchIds        the loadLibraries calls it has made so far, in order
\*   status          "running" | "returned"
\*   loadedAtCall, loadingAtCall     loadedModules and loadingQueue at the call
AnalysisRecord(s, imports) ==
    [imports |-> imports,
     newLibraries |-> NewLibraries(s, imports),
     chunks |-> chunkArray(NewLibraries(s, imports), maxConcurrentLoads),
     batchIds |-> <<>>, status |-> "running",
     loadedAtCall |-> s.loadedModules, loadingAtCall |-> s.loadingQueue]

\* this.loadLibraries(chunk) called by analysis a, to the await of
\* Promise.allSettled
StartChunk(a, rec, chunk) ==
    /\ SetManagerState(MapLoadLibrary(ManagerState, chunk, 1, Len(batches) + 1, now))
    /\ batches' = Append(batches,
           [names |-> chunk,
            members |-> [k \in 1..Len(chunk) |-> Len(loads) + k],
            status |-> "pending", results |-> <<>>])
    /\ analyses' = [i \in 1..a |->
                      IF i = a THEN [rec EXCEPT !.batchIds = Append(@, Len(batches) + 1)]
                               ELSE analyses[i]]

\* analyzeAndLoadTypes(code), imports being extractImports(code), to its
\* first await or its return
AnalyzeAndLoadTypes(imports) ==
    /\ opCount < MaxCalls
    /\ Len(analyses) < MaxAnalyses
    /\ LET rec == AnalysisRecord(ManagerState, imports) IN
       IF Len(rec.newLibraries) = 0
         THEN /\ analyses' = Append(analyses, [rec EXCEPT !.status = "returned"])
              /\ UNCHANGED <<visited, files, extraLibs, requests, localStorage, hitCount,
                             missCount, trail, loadingQueue, loadedModules, loads, batches>>
         ELSE StartChunk(Len(analyses) + 1, rec, rec.chunks[1])
    /\ opCount' = opCount + 1
    /\ UNCHANGED <<now, cacheCall, lastOp, ticks, applied, bundlerVars>>

\* await this.loadLibraries(chunk) of analysis a completes: the loop goes on
\* with the next chunk, or the components of the code are registered and the
\* call returns
AnalyzeResume(a) ==
    /\ a \in 1..Len(analyses)
    /\ analyses[a].status = "running"
    /\ LET rec == analyses[a]
           k   == Len(rec.batchIds)
       IN  /\ batches[rec.batchIds[k]].status = "done"
           /\ IF k < Len(rec.chunks)
                THEN StartChunk(a, rec, rec.chunks[k + 1])
                ELSE /\ analyses' = [analyses EXCEPT ![a] = [@ EXCEPT !.status = "returned"]]
                     /\ extraLibs' = analyzeAndRegisterComponents(extraLibs, rec.imports)
                     /\ UNCHANGED <<visited, files, requests, localStorage, hitCount,
                                    missCount, trail, loadingQueue, loadedModules, loads, batches>>
    /\ UNCHANGED <<now, cacheCall, lastOp, ticks, opCount, applied, bundlerVars>>

NextAnalyze ==
    \/ \E imports \in ImportLists : AnalyzeAndLoadTypes(imports)
    \/ \E libraryName \in OtherLoads : LoadLibrary(libraryName)
    \/ \E i \in 1..Len(loads), outcome \in FetchOutcomes : HeadResponse(i, outcome)
    \/ \E i \in 1..Len(loads), resp \in ProbeResponses : ProbeResponse(i, resp)
    \/ \E i \in 1..Len(loads), outcome \in FetchOutcomes : GetResponse(i, outcome, TRUE)
    \/ \E i \in 1..Len(loads) : LoadLibraryReturn(i)
    \/ \E b \in 1..Len(batches) : LoadLibrariesReturn(b)
    \/ \E a \in 1..Len(analyses) : AnalyzeResume(a)

SpecAnalyze == Init /\ [][NextAnalyze]_vars

----------------------------------------------------------------------------
(* The cache called directly by one sequential caller, which awaits each    *)
(* call before the next; the clock and the server act in between           *)

InitCache ==
    /\ localStorage = EmptyStorage
    /\ now = 0
    /\ hitCount = 0
    /\ missCount = 0
    /\ cacheCall = NoCall
    /\ lastOp = NoOp
    /\ ticks = 0
    /\ opCount = 0
    /\ InitWalker
    /\ trail = Untraced

CacheStep ==
    \/ \E u \in CacheUrls : CacheGet(u)
    \/ \E resp \in ProbeResponses : CacheGetResume(resp)
    \/ \E u \in CacheUrls, content \in Texts, etag \in ETagOpts : CacheSet(u, content, etag)
    \/ \E ok \in BOOLEAN : CacheSetWrite(ok)
    \/ \E u \in CacheUrls : CacheRemove(u)
    \/ CacheClear
    \/ \E d \in TickDeltas : Tick(d)

NextCache == CacheStep /\ UNCHANGED walkerVars

SpecCache == InitCache /\ [][NextCache]_vars

----------------------------------------------------------------------------
(* The cache over a localStorage that the page shares with other writers   *)

\* a stored string that JSON.parse rejects, by its length
Garbage == [garbage |-> 7]

\* a key of another feature of the page, outside the cache namespace
ForeignKey == <<"t","h","e","m","e">>

\* what localStorage may hold when the cache is first used: a record the cache
\* wrote for "a.b", an undecodable string under the cache key of "c", and a
\* key of another feature, in any combination
StoreMix(parts) ==
    LET ls1 == IF "record" \in parts
                 THEN SetWrite(EmptyStorage, <<"a",".","b">>, "X", Undefined, 0, TRUE)
                 ELSE EmptyStorage
        ls2 == IF "undecodable" \in parts
                 THEN setItem(ls1, getCacheKey(<<"c">>), Garbage)
                 ELSE ls1
    IN  IF "foreign" \in parts THEN setItem(ls2, ForeignKey, Garbage) ELSE ls2

StoreMixes == {StoreMix(parts) : parts \in SUBSET {"record", "undecodable", "foreign"}}

InitStore ==
    /\ localStorage \in StoreMixes
    /\ now = 0
    /\ hitCount = 0
    /\ missCount = 0
    /\ cacheCall = NoCall
    /\ lastOp = NoOp
    /\ ticks = 0
    /\ opCount = 0
    /\ InitWalker
    /\ trail = Untraced

StoreStep ==
    \/ \E u \in CacheUrls : CacheGet(u)
    \/ \E resp \in ProbeResponses : CacheGetResume(resp)
    \/ \E u \in CacheUrls, content \in Texts, etag \in ETagOpts : CacheSet(u, content, etag)
    \/ \E ok \in BOOLEAN : CacheSetWrite(ok)
    \/ \E u \in CacheUrls : CacheRemove(u)
    \/ CacheClear

NextStore == StoreStep /\ UNCHANGED walkerVars

SpecStore == InitStore /\ [][NextStore]_vars

----------------------------------------------------------------------------
(* Claims about TypeCache, checked under SpecCache *)

\* C6: cache round trip.  A get(u) called immediately after a set(u, X) whose
\* storage write succeeded returns exactly X, provided that the revalidation
\* probe, when the entry carries an ETag, reports that same ETag.
C6_RoundTrip ==
    ( /\ lastOp.op = "get"
      /\ lastOp.afterSet # Undefined
      /\ (lastOp.probed => ~lastOp.resp.thrown /\ lastOp.resp.etag = lastOp.etag) )
    => lastOp.result = lastOp.afterSet

\* a get right after a successful set of an entry with an ETag, revalidated
\* with the same ETag, has returned the content
C6_Witness ==
    /\ lastOp.op = "get"
    /\ lastOp.afterSet = "X"
    /\ lastOp.probed
    /\ lastOp.resp.ok
    /\ lastOp.resp.etag = lastOp.etag
    /\ lastOp.result = "X"

\* C7 as stated: get returns the stored content only when the age of the
\* entry is strictly less than the expiry window; at an age that has reached
\* or passed the window get returns absent and removes the entry.
C7_Original ==
    (lastOp.op = "get" /\ lastOp.found)
    => /\ (lastOp.result # Undefined => lastOp.age < CACHE_EXPIRY)
       /\ (lastOp.age >= CACHE_EXPIRY =>
              /\ lastOp.result = Undefined
              /\ getCacheKey(lastOp.url) \notin DOMAIN localStorage)

\* C7 as amended: get returns the stored content only when the age of the
\* entry is at most the expiry window; at an age strictly greater than the
\* window get returns absent and removes the entry.
C7_Expiry ==
    (lastOp.op = "get" /\ lastOp.found)
    => /\ (lastOp.result # Undefined => lastOp.age <= CACHE_EXPIRY)
       /\ (lastOp.age > CACHE_EXPIRY =>
              /\ lastOp.result = Undefined
              /\ getCacheKey(lastOp.url) \notin DOMAIN localStorage)

\* a get has found an entry older than the window, returned absent and
\* removed it
C7_Witness ==
    /\ lastOp.op = "get"
    /\ lastOp.found
    /\ lastOp.age > CACHE_EXPIRY
    /\ lastOp.result = Undefined
    /\ getCacheKey(lastOp.url) \notin DOMAIN localStorage

\* C8 as stated: when the entry carries an ETag, any failure of the
\* revalidation probe (the fetch throws, or the response is not a success) is
\* treated as still valid: get returns the cached content and keeps the entry;
\* the entry is invalidated only when the probe succeeds with a different tag.
C8_FailOpen ==
    (lastOp.op = "get" /\ lastOp.probed)
    => /\ (lastOp.resp.thrown \/ ~lastOp.resp.ok) =>
              /\ lastOp.result = lastOp.cached
              /\ getCacheKey(lastOp.url) \in DOMAIN localStorage
       /\ lastOp.result = Undefined =>
              /\ ~lastOp.resp.thrown
              /\ lastOp.resp.ok
              /\ lastOp.resp.etag # lastOp.etag

\* C9 as stated: a set whose write would make the combined size cross the
\* budget (current size + new record > MAX_CACHE_SIZE) evicts the oldest 30%
\* of the entries (ceil(0.3 n) of n) before the write.
C9_EvictBeforeCrossing ==
    ( /\ lastOp.op \in {"set-await", "set"}
      /\ lastOp.sizeBefore + lastOp.recLen > MAX_CACHE_SIZE )
    => Cardinality(lastOp.evicted) = Ceil30(lastOp.entries)

\* C10 as stated: after any set call completes, the total size of the entries
\* under the cache namespace is at most MAX_CACHE_SIZE.
C10_SizeBudget ==
    lastOp.op = "set" => getCurrentCacheSize(localStorage) <= MAX_CACHE_SIZE

----------------------------------------------------------------------------
(* Claims about fetchAndAddTypes and IntelliSenseManager, checked under Spec *)

\* the URLs fetch has been called with
RequestedUrls == {key[2] : key \in DOMAIN requests}

\* the number of fetch calls of every kind with one URL
RequestsTo(url) ==
    Count(requests, <<"resolve", url>>) + Count(requests, <<"probe", url>>)
    + Count(requests, <<"get", url>>)

\* C1 as stated: across any interleaving of fetchAndAddTypes calls, fetch,
\* counting every HEAD and every GET including the revalidation probe of the
\* cache, is called at most once with any given URL.
C1_Original == \A url \in RequestedUrls : RequestsTo(url) <= 1

\* C1 as amended: across any interleaving of fetchAndAddTypes calls, every URL
\* is downloaded (GET) at most once and revalidated (the HEAD probe of the
\* cache) at most once, and every package specifier is resolved (HEAD) at most
\* once, also when a second request for the target is made before the first
\* completes.
C1_OncePerKind == \A key \in DOMAIN requests : requests[key] <= 1

\* two overlapping walks have completed, and a file found in the cache with an
\* outdated ETag has been revalidated once and downloaded once
C1_Witness ==
    /\ Len(loads) >= 2
    /\ loads[1].invoked /\ loads[1].status = "returned"
    /\ loads[2].invoked /\ loads[2].status = "returned"
    /\ \E url \in FileUrls :
          /\ Count(requests, <<"probe", url>>) = 1
          /\ Count(requests, <<"get", url>>) = 1

\* C2: a loadLibrary(name) called while name is loaded or loading returns true
\* without calling fetchAndAddTypes and without a fetch; at most one
\* fetchAndAddTypes call started by loadLibrary is in flight per name.
C2_Dedup ==
    /\ \A i \in 1..Len(loads) :
          (loads[i].wasLoaded \/ loads[i].wasLoading)
          => /\ loads[i].status = "returned"
             /\ loads[i].result = TRUE
             /\ ~loads[i].invoked
             /\ loads[i].issued = 0
    /\ \A i, j \in 1..Len(loads) :
          (i # j /\ loads[i].status = "running" /\ loads[j].status = "running")
          => loads[i].name # loads[j].name

\* a second loadLibrary of a name has returned true while the first is still
\* in flight
C2_Witness ==
    \E i, j \in 1..Len(loads) :
        /\ i < j
        /\ loads[i].name = loads[j].name
        /\ loads[i].status = "running"
        /\ loads[j].wasLoading
        /\ loads[j].status = "returned"
        /\ loads[j].result = TRUE

\* C3: loadLibrary(name) for a name outside supportedLibraries returns false,
\* makes no fetch call and leaves loadingQueue, loadedModules, the visited set
\* and localStorage unchanged.
C3_Unsupported ==
    \A i \in 1..Len(loads) :
        loads[i].name \notin supportedLibraries
        => /\ loads[i].status = "returned"
           /\ loads[i].result = FALSE
           /\ ~loads[i].invoked
           /\ loads[i].issued = 0
           /\ ~loads[i].touched

\* an unsupported name has been refused while another library was loading
C3_Witness ==
    \E i \in 1..Len(loads) :
        /\ loads[i].name = vue
        /\ loads[i].status = "returned"
        /\ loads[i].result = FALSE
        /\ loadingQueue # {}
        /\ requests # EmptyStorage

\* C4: when a loadLibrary(name) of a supported name that was neither loaded
\* nor loading returns, name is in loadedModules and not in loadingQueue,
\* whether or not the resolution and the downloads succeeded; a later
\* loadLibrary(name) makes no fetch call.
C4_LoadedAfter ==
    /\ \A i \in 1..Len(loads) :
          (loads[i].invoked /\ loads[i].status = "returned")
          => loads[i].loadedAfter /\ ~loads[i].loadingAfter
    /\ \A i, j \in 1..Len(loads) :
          (i < j /\ loads[i].invoked /\ loads[i].name = loads[j].name)
          => loads[j].issued = 0

\* a load whose entry failed has ended with the name loaded, and a later
\* loadLibrary of the name has returned without a fetch
C4_Witness ==
    \E i, j \in 1..Len(loads) :
        /\ i < j
        /\ loads[i].name = loads[j].name
        /\ loads[i].entryFailed
        /\ loads[i].status = "returned"
        /\ loads[i].loadedAfter /\ ~loads[i].loadingAfter
        /\ ~loads[j].wasLoading
        /\ loads[j].status = "returned"
        /\ loads[j].issued = 0

\* C5 as stated: loadLibraries(names) returns one {library, success} record
\* per input name in input order; a library whose entry resolution or entry
\* download failed gets success = false, and a library loaded without such a
\* failure in the same call gets success = true.
C5_BatchResults ==
    \A b \in 1..Len(batches) :
        batches[b].status = "done"
        => /\ Len(batches[b].results) = Len(batches[b].names)
           /\ \A k \in 1..Len(batches[b].names) :
                 LET load == loads[batches[b].members[k]]
                     r    == batches[b].results[k]
                 IN  /\ r.library = batches[b].names[k]
                     /\ load.entryFailed => r.success = FALSE
                     /\ (load.invoked /\ ~load.entryFailed) => r.success = TRUE

----------------------------------------------------------------------------
(* Claims about TypeCache over a shared localStorage, checked under SpecStore *)

\* C11 as stated: get(url) on a stored string that cannot be decoded returns
\* absent to its caller, and the undecodable string is no longer in
\* localStorage when that get returns.
C11_MalformedDeleted ==
    (lastOp.op = "get" /\ lastOp.malformed)
    => /\ lastOp.result = Undefined
       /\ getCacheKey(lastOp.url) \notin DOMAIN localStorage

\* C13: clear() removes every key of localStorage that starts with
\* CACHE_PREFIX and leaves every other key with its value; remove(url) deletes
\* the key getCacheKey(url) and leaves every other key with its value.
C13_Invalidation ==
    /\ lastOp.op = "clear"
       => /\ \A k \in DOMAIN lastOp.before :
                IF startsWith(k, CACHE_PREFIX)
                  THEN k \notin DOMAIN localStorage
                  ELSE k \in DOMAIN localStorage /\ localStorage[k] = lastOp.before[k]
          /\ DOMAIN localStorage \subseteq DOMAIN lastOp.before
    /\ lastOp.op = "remove"
       => /\ getCacheKey(lastOp.url) \notin DOMAIN localStorage
          /\ \A k \in (DOMAIN lastOp.before) \ {getCacheKey(lastOp.url)} :
                k \in DOMAIN localStorage /\ localStorage[k] = lastOp.before[k]
          /\ DOMAIN localStorage \subseteq DOMAIN lastOp.before

\* a clear() has removed two cache keys and kept the key of another feature
C13_Witness ==
    /\ lastOp.op = "clear"
    /\ Cardinality(CacheKeys(lastOp.before)) >= 2
    /\ ForeignKey \in DOMAIN lastOp.before
    /\ DOMAIN localStorage = {ForeignKey}

----------------------------------------------------------------------------
(* Claims about the walker, checked under SpecWalk *)

\* what was done for a marker or at a virtual path
Events(key) == IF key \in DOMAIN trail THEN trail[key] ELSE <<>>

Did(key, ev) == \E k \in 1..Len(Events(key)) : Events(key)[k].ev = ev

Times(key, ev) == Cardinality({k \in 1..Len(Events(key)) : Events(key)[k].ev = ev})

\* what was done for a marker by the calls that did not return at the visited
\* check
Steps(key) == SelectSeq(Events(key), LAMBDA e : e.ev # "skip")

\* the markers of the dependencies of the file at url
ChildMarkers(url) ==
    LET children == Children(Body(url))
    IN  UNION { { IF ChildFrames(children[k], url)[j].fn = "processFile"
                    THEN normalizeTypeUrl(ChildFrames(children[k], url)[j].arg)
                    ELSE PackageMarker(ChildFrames(children[k], url)[j].arg)
                  : j \in 1..Len(ChildFrames(children[k], url)) }
                : k \in 1..Len(children) }

\* the registration of the file at url is in place
RegistrationKept(url) ==
    \E k \in 1..Len(Events(url)) :
        /\ Events(url)[k].ev = "register"
        /\ Events(url)[k].text \in DOMAIN extraLibs
        /\ extraLibs[Events(url)[k].text] = Body(url)
        /\ files[Events(url)[k].text] = Body(url)

\* every fetchAndAddTypes call made has completed
AllDone == Len(loads) >= 1 /\ \A i \in 1..Len(loads) : WalkDone(i)

\* C12: when the localStorage write inside set fails, set returns normally and
\* the processFile that called it still registers the downloaded content and
\* goes through the dependencies of the file.
C12_WriteFailureSwallowed ==
    \A url \in FileUrls :
        Did(url, "setfail")
        => /\ Did(url, "register")
           /\ RegistrationKept(url)
           /\ AllDone => ChildMarkers(url) \subseteq visited

\* a walk has completed in which the write for a file failed, the file was
\* registered and its dependency was downloaded and registered
C12_Witness ==
    /\ AllDone
    /\ Did(URL_KY, "setfail")
    /\ Did(URL_KY, "register")
    /\ Did(URL_A, "GETok")
    /\ Did(URL_A, "register")

\* C14: once a marker (a normalized URL or package:<specifier>) is recorded,
\* no later processFile or fetchEntry call for it looks in the cache, calls
\* fetch or registers anything, whether the first attempt succeeded or failed:
\* for every marker each of these is done at most once, and only by the call
\* that recorded it.
C14_MarkerOnce ==
    /\ \A key \in DOMAIN trail :
          /\ Times(key, "lookup") <= 1
          /\ Times(key, "HEAD") <= 1
          /\ Times(key, "GET") <= 1
          /\ Times(key, "register") <= 1
          /\ Events(key)[1].ev \in {"lookup", "HEAD", "add"}
          /\ Did(key, "skip") => key \in visited
    /\ \A key \in DOMAIN requests : requests[key] <= 1
    /\ \A key \in visited : Len(Steps(key)) >= 1

\* a file whose download failed and a package were asked for again later in
\* the walk, and nothing more was done for them
C14_Witness ==
    /\ Did(URL_A, "GETfail")
    /\ Events(URL_A)[Len(Events(URL_A))].ev = "skip"
    /\ Times(URL_A, "GET") = 1
    /\ Did(PackageMarker(ky), "skip")
    /\ Times(PackageMarker(ky), "HEAD") = 1

\* C15 as stated: for each processed URL the content is obtained in the order cache
\* get, network GET, cache set: a GET is issued only after the cache get for
\* the URL returned absent, a cache hit causes no GET and no cache set, and
\* the cache set is called only after a successful GET and before the
\* registration.
C15_CacheFirst ==
    \A url \in FileUrls :
        LET e == Steps(url) IN
        /\ \A k \in 1..Len(e) :
              /\ (k = 1) <=> (e[k].ev = "lookup")
              /\ e[k].ev \in {"hit", "absent"} => e[k - 1].ev = "lookup"
              /\ e[k].ev = "GET" => e[k - 1].ev = "absent"
              /\ e[k].ev \in {"GETok", "GETfail"} => e[k - 1].ev = "GET"
              /\ e[k].ev \in {"set", "setfail"} => e[k - 1].ev = "GETok"
              /\ e[k].ev = "register" => e[k - 1].ev \in {"hit", "set", "setfail"}
        /\ Did(url, "hit") => ~Did(url, "GET") /\ ~Did(url, "set") /\ ~Did(url, "setfail")

\* C16: when the download of a dependency file fails, the file is skipped and
\* the walk goes on: once the top-level call has returned, every dependency of
\* every registered file has been taken up (its marker is recorded and
\* something was done for it), whatever happened to its siblings, and the
\* registration of the parent is still in place.
C16_FailureSkipped ==
    AllDone
    => \A url \in FileUrls :
          Did(url, "register")
          => /\ ChildMarkers(url) \subseteq visited
             /\ \A c \in ChildMarkers(url) : Steps(c) # <<>>
             /\ RegistrationKept(url)

\* the walk of ky has returned; the download of its first dependency failed,
\* the sibling after it was still resolved, and the parent is registered
C16_Witness ==
    /\ AllDone
    /\ Len(loads) = 1
    /\ loads[1].name = ky
    /\ Did(URL_KY, "register")
    /\ Did(URL_A, "GETfail")
    /\ Did(PackageMarker(zod), "HEAD")
    /\ RegistrationKept(URL_KY)

\* C17: every fetchAndAddTypes call made returns, cycles between files and
\* between packages included, provided every request is answered.
C17_WalkReturns ==
    \A i \in 1..MaxWalks : (Len(loads) >= i) ~> WalkDone(i)

\* a walk has returned that came back to a file and to a package it was
\* already in: ky.d.ts references a.d.ts which references ky.d.ts, and ky
\* imports zod which imports ky
C17_Witness ==
    /\ WalkDone(1)
    /\ Did(URL_KY, "skip")
    /\ Did(PackageMarker(ky), "skip")
    /\ Did(URL_A, "register")
    /\ Did(URL_ZOD, "register")

\* C18: addExtraLib is called for a virtual path only when nothing is
\* registered at the path or what is registered differs: of the registrations
\* asked for at one path, exactly the first and those whose content differs
\* from the one before call addExtraLib, and the path holds the content asked
\* for last.
C18_AddOnlyWhenNew ==
    \A path \in DOMAIN trail :
        startsWith(path, NODE_MODULES)
        => LET e == Events(path) IN
           /\ \A k \in 1..Len(e) :
                 /\ e[k].ev \in {"add", "same"}
                 /\ (e[k].ev = "add") <=> (k = 1 \/ e[k - 1].text # e[k].text)
           /\ path \in DOMAIN extraLibs
           /\ extraLibs[path] = e[Len(e)].text

\* two URLs with the same virtual path and the same content were registered:
\* the second registration called addExtraLib no more
C18_Witness ==
    /\ Did(URL_E, "register")
    /\ Did(URL_E2, "register")
    /\ Events(VirtualPath(URL_E, <<>>)) = << [ev |-> "add", text |-> ""], [ev |-> "same", text |-> ""] >>
    /\ VirtualPath(URL_E2, <<>>) = VirtualPath(URL_E, <<>>)

\* C19 as stated: a registration under file:///node_modules/@types/<package>/index.d.ts
\* exists only for a package whose name does not start with "@" and has no
\* "/" in it.
C19_MirrorUnscopedOnly ==
    \A p \in Packages :
        PackagePath(p) \in DOMAIN extraLibs => (p[1] # "@" /\ ~includes(p, <<"/">>))

----------------------------------------------------------------------------
(* Claims about analyzeAndLoadTypes, checked under SpecAnalyze *)

RECURSIVE Flatten(_)
Flatten(seqs) == IF seqs = <<>> THEN <<>> ELSE Head(seqs) \o Flatten(Tail(seqs))

\* the loadLibrary calls made by the k-th loadLibraries call of analysis a
ChunkLoads(a, k) ==
    LET b == batches[analyses[a].batchIds[k]]
    IN  { b.members[j] : j \in 1..Len(b.members) }

\* the loads started by analysis a whose fetchAndAddTypes has not returned
InFlight(a) ==
    UNION { { i \in ChunkLoads(a, k) : loads[i].invoked /\ loads[i].status = "running" }
            : k \in 1..Len(analyses[a].batchIds) }

\* C20: within one analyzeAndLoadTypes call the names to load are cut into
\* consecutive batches of at most maxConcurrentLoads names; batch k+1 is
\* started only after every load of batch k has settled, so at most
\* maxConcurrentLoads loads of the call are in flight; and only names of the
\* allow-list that were neither loaded nor loading are started.
C20_Batches ==
    \A a \in 1..Len(analyses) :
        LET rec == analyses[a] IN
        /\ Flatten(rec.chunks) = rec.newLibraries
        /\ \A k \in 1..Len(rec.chunks) :
              /\ Len(rec.chunks[k]) \in 1..maxConcurrentLoads
              /\ k < Len(rec.chunks) => Len(rec.chunks[k]) = maxConcurrentLoads
        /\ Len(rec.batchIds) <= Len(rec.chunks)
        /\ \A k \in 1..Len(rec.batchIds) :
              /\ batches[rec.batchIds[k]].names = rec.chunks[k]
              /\ k < Len(rec.batchIds)
                 => \A i \in ChunkLoads(a, k) : loads[i].status = "returned"
              /\ \A i \in ChunkLoads(a, k) :
                    /\ loads[i].name \in { rec.imports[j] : j \in 1..Len(rec.imports) }
                    /\ loads[i].invoked
                       => /\ loads[i].name \in supportedLibraries
                          /\ ~loads[i].wasLoaded
                          /\ ~loads[i].wasLoading
                          /\ loads[i].name \notin rec.loadedAtCall
        /\ Cardinality(InFlight(a)) <= maxConcurrentLoads
        /\ rec.status = "returned" => Len(rec.batchIds) = Len(rec.chunks)

\* an analysis found four names to load: the three loads of its first batch
\* were all started and have settled, and the load of its second batch is in
\* flight
C20_Witness ==
    /\ Len(analyses) >= 1
    /\ Len(analyses[1].newLibraries) = 4
    /\ Len(analyses[1].chunks) = 2
    /\ Len(analyses[1].batchIds) = 2
    /\ Cardinality(ChunkLoads(1, 1)) = maxConcurrentLoads
    /\ \A i \in ChunkLoads(1, 1) : loads[i].invoked /\ loads[i].status = "returned"
    /\ \E i \in ChunkLoads(1, 2) : i \in InFlight(1)

----------------------------------------------------------------------------
(* Functions called on their own: the argument is drawn at the start, the   *)
(* call records its result                                                   *)

\* everything but the function and its argument is as after construction
InitQuiet ==
    /\ localStorage = EmptyStorage
    /\ now = 0
    /\ hitCount = 0
    /\ missCount = 0
    /\ cacheCall = NoCall
    /\ lastOp = NoOp
    /\ ticks = 0
    /\ opCount = 0
    /\ visited = {}
    /\ files = EmptyStorage
    /\ extraLibs = EmptyStorage
    /\ requests = EmptyStorage
    /\ loadingQueue = {}
    /\ loadedModules = {}
    /\ loads = <<>>
    /\ batches = <<>>
    /\ analyses = <<>>
    /\ trail = Untraced
    /\ initializePromise = 0
    /\ promises = <<>>
    /\ bundles = <<>>
    /\ intelliSense = NotInitialized
    /\ preview = NotMounted

\* the call of fn returns value
Return(fn, value) ==
    /\ applied.fn = fn
    /\ ~applied.done
    /\ applied' = [applied EXCEPT !.result = value, !.done = TRUE]
    /\ UNCHANGED <<cacheVars, visited, files, extraLibs, requests, loadingQueue, loadedModules,
                   loads, batches, trail, analyses, bundlerVars>>

\* the sequences over S of length at most n
SeqsUpTo(S, n) == UNION { [1..k -> S] : k \in 0..n }

----------------------------------------------------------------------------
(* extractImports *)

\* moduleName.split("/") from position i on, cur being the piece collected
RECURSIVE SplitFrom(_, _, _)
SplitFrom(s, i, cur) ==
    IF i > Len(s) THEN << cur >>
    ELSE IF s[i] = "/" THEN << cur >> \o SplitFrom(s, i + 1, <<>>)
    ELSE SplitFrom(s, i + 1, Append(cur, s[i]))

\* s.split("/")
Split(s) == SplitFrom(s, 1, <<>>)

\* parts.join("/")
RECURSIVE Join(_)
Join(parts) ==
    IF parts = <<>> THEN <<>>
    ELSE IF Len(parts) = 1 THEN parts[1]
    ELSE parts[1] \o <<"/">> \o Join(Tail(parts))

\* ["fs", "path", "os", "crypto", "util", "events"]
BuiltIns == { <<"f","s">>, <<"p","a","t","h">>, <<"o","s">>, <<"c","r","y","p","t","o">>, <<"u","t","i","l">>, <<"e","v","e","n","t","s">> }

\* the test that keeps a match: not relative, not rooted, not node:, not a
\* built-in
IsExternal(moduleName) ==
    /\ ~startsWith(moduleName, <<".">>)
    /\ ~startsWith(moduleName, <<"/">>)
    /\ ~startsWith(moduleName, <<"n","o","d","e",":">>)
    /\ moduleName \notin BuiltIns

\* the name kept as it was matched
cleanModuleName_AsMatched(moduleName) == moduleName

\* moduleName.startsWith("@") ? moduleName.split("/").slice(0, 2).join("/")
\*                            : moduleName.split("/")[0]
cleanModuleName(moduleName) ==
    IF startsWith(moduleName, <<"@">>)
      THEN Join(Slice(Split(moduleName), 0, 2))
      ELSE Split(moduleName)[1]

\* imports.add(name): a Set keeps the order of first insertion
SetAdd(imports, name) ==
    IF \E k \in 1..Len(imports) : imports[k] = name THEN imports ELSE Append(imports, name)

\* the loop over the matches, from match k on
RECURSIVE ExtractFrom(_, _, _)
ExtractFrom(matches, k, imports) ==
    IF k > Len(matches) THEN imports
    ELSE ExtractFrom(matches, k + 1,
            IF IsExternal(matches[k]) THEN SetAdd(imports, cleanModuleName(matches[k]))
                                      ELSE imports)

\* extractImports(code), matches being the specifiers the three patterns
\* find in code, in the order found: Array.from(imports)
extractImports(matches) == ExtractFrom(matches, 1, <<>>)

\* the specifiers written in the code edited
RawSpecifiers == { <<"@","v","a","p","o","r","-","u","i","/","c","o","r","e">>,
                   <<"@","v","a","p","o","r","-","u","i","/","c","o","r","e","/","d","i","s","t","/","x">>,
                   <<".","/","l","o","c","a","l">>,
                   <<"l","o","d","a","s","h","/","f","p">>,
                   <<"l","o","d","a","s","h">>,
                   <<"/","a","b","s">>,
                   <<"n","o","d","e",":","f","s">>,
                   <<"f","s">>,
                   <<"f","s","/","p","r","o","m","i","s","e","s">>,
                   <<"@","s","c","o","p","e">> }

InitExtract ==
    /\ InitQuiet
    /\ applied \in [fn : {"extractImports"}, arg : SeqsUpTo(RawSpecifiers, MaxMatches),
                    result : {<<>>}, done : {FALSE}]

ExtractImports == Return("extractImports", extractImports(applied.arg))

NextExtract == ExtractImports

SpecExtract == InitExtract /\ [][NextExtract]_vars

\* the number of "/" among the first k characters of s
Slashes(s, k) == Cardinality({ j \in 1..k : s[j] = "/" })

\* s up to, and without, its n-th "/": all of s when it has fewer
UpToSlash(s, n) ==
    SubSeq(s, 1, CHOOSE k \in 0..Len(s) :
                    /\ Slashes(s, k) < n
                    /\ k < Len(s) => Slashes(s, k + 1) = n)

\* C21: extractImports yields a duplicate-free array whose elements are
\* exactly: for every specifier found that does not start with ".", "/" or
\* "node:" and is not one of the built-in names, its first two segments when
\* it starts with "@" and its first segment otherwise.
C21_Extraction ==
    (applied.fn = "extractImports" /\ applied.done)
    => LET out == applied.result
           raw == { applied.arg[k] : k \in 1..Len(applied.arg) }
           kept == { s \in raw :
                        /\ s[1] \notin {".", "/"}
                        /\ ~(Len(s) >= 5 /\ SubSeq(s, 1, 5) = <<"n","o","d","e",":">>)
                        /\ s \notin BuiltIns }
       IN  /\ \A i, j \in 1..Len(out) : out[i] = out[j] => i = j
           /\ { out[k] : k \in 1..Len(out) }
                = { UpToSlash(s, IF s[1] = "@" THEN 2 ELSE 1) : s \in kept }

\* the specifiers '@vapor-ui/core', './local', 'lodash/fp' have yielded
\* exactly '@vapor-ui/core' and 'lodash'
C21_Witness ==
    /\ applied.fn = "extractImports"
    /\ applied.arg = << <<"@","v","a","p","o","r","-","u","i","/","c","o","r","e">>, <<".","/","l","o","c","a","l">>, <<"l","o","d","a","s","h","/","f","p">> >>
    /\ { applied.result[k] : k \in 1..Len(applied.result) } = { <<"@","v","a","p","o","r","-","u","i","/","c","o","r","e">>, <<"l","o","d","a","s","h">> }
    /\ Len(applied.result) = 2

----------------------------------------------------------------------------
(* normalizeTypeUrl called on its own *)

\* the URLs normalized: a path, followed by an ending
UrlStems == { <<"h","t","t","p","s",":","/","/","e","s","m",".","s","h","/","v","1","/","a">>,
              <<"h","t","t","p","s",":","/","/","e","s","m",".","s","h","/","c","h","a","r","t",".","j","s","@","4","/","t","y","p","e","s","/","g","e","o","m","e","t","r","i","c">>,
              <<"h","t","t","p","s",":","/","/","e","s","m",".","s","h","/","v","1","/","d","i","r","/">>,
              <<"h","t","t","p","s",":","/","/","e","s","m",".","s","h","/","k","y">>,
              <<"h","t","t","p","s",":","/","/","e","s","m",".","s","h","/","v","1","/","x",".","m","i","n">>,
              <<"h","t","t","p","s",":","/","/","e","s","m",".","s","h","/","@","v","a","p","o","r","-","u","i","/","c","o","r","e">> }

UrlEndings == { <<>>,
                <<".","d",".","t","s">>,
                <<".","d",".","t","s",".","d",".","t","s">>,
                <<".","d",".","t","s",".","d",".","t","s",".","d",".","t","s">>,
                <<".","t","s">>,
                <<".","j","s">>,
                <<"?","d","t","s">>,
                <<".","d",".","t","s","?","v","=","1">>,
                <<".","d",".","t","s",".","d",".","t","s","?","v","=","1">>,
                <<"/">> }

InitNormalize ==
    /\ InitQuiet
    /\ applied \in [fn : {"normalizeTypeUrl"},
                    arg : { stem \o ending : stem \in UrlStems, ending \in UrlEndings },
                    result : {<<>>}, done : {FALSE}]

NormalizeTypeUrl == Return("normalizeTypeUrl", normalizeTypeUrl(applied.arg))

NextNormalize == NormalizeTypeUrl

SpecNormalize == InitNormalize /\ [][NextNormalize]_vars

\* the part of url after its last "/"
LastSegment(url) ==
    LET at == { k \in 1..Len(url) : url[k] = "/" }
    IN  SubSeq(url, (IF at = {} THEN 0 ELSE CHOOSE k \in at : \A j \in at : j <= k) + 1, Len(url))

\* a bare path: no query, no extension, not ending in "/"
IsBarePath(url) ==
    /\ ~includes(url, <<"?">>)
    /\ url[Len(url)] # "/"
    /\ ~includes(LastSegment(url), <<".">>)

\* C22 as stated: normalizeTypeUrl leaves no repeated ".d.ts.d.ts" in the URL,
\* returns every URL that contains "?" unmodified, appends exactly one ".d.ts"
\* to every bare path (no query, no extension, not ending in "/"), and
\* applying it to its own result changes nothing.
C22_Normalize ==
    (applied.fn = "normalizeTypeUrl" /\ applied.done)
    => /\ ~includes(applied.result, DTS \o DTS)
       /\ includes(applied.arg, <<"?">>) => applied.result = applied.arg
       /\ IsBarePath(applied.arg) => applied.result = applied.arg \o DTS
       /\ normalizeTypeUrl(applied.result) = applied.result

----------------------------------------------------------------------------
(* bundler.ts: bundle and the initialization of esbuild *)

\* the codes handed to bundle: one that mounts itself, one that is a
\* component only
RawCodes == { <<"r","e","n","d","e","r","(","<","A","p","p","/",">",")">>, <<"f","u","n","c","t","i","o","n"," ","A","p","p","(",")","{","}">> }

\* rawCode.includes("createRoot") || rawCode.includes("render")
hasCreateRoot(rawCode) ==
    includes(rawCode, <<"c","r","e","a","t","e","R","o","o","t">>) \/ includes(rawCode, <<"r","e","n","d","e","r">>)

\* ensureInitialized that starts esbuild on every call
ensureInitialized_Always(s) ==
    [initializePromise |-> Len(s.promises) + 1,
     promises |-> Append(s.promises, "pending"),
     returned |-> Len(s.promises) + 1]

\* ensureInitialized(), on s = [initializePromise, promises]: the promise it
\* returns is `returned`
ensureInitialized(s) ==
    IF s.initializePromise # 0
      THEN [initializePromise |-> s.initializePromise, promises |-> s.promises,
            returned |-> s.initializePromise]
      ELSE [initializePromise |-> Len(s.promises) + 1,
            promises |-> Append(s.promises, "pending"),
            returned |-> Len(s.promises) + 1]

\* bundle(rawCode) to its await of ensureInitialized():
\*   awaits         the promise awaited
\*   status         "init" | "transform" | "returned" | "threw"
\*   early          the call was made before any initialization had completed
\*   transformed    esbuild.transform was called
\*   readyAtTransform  the awaited promise was fulfilled when transform was called
CallBundle(rawCode) ==
    LET e == ensureInitialized([initializePromise |-> initializePromise, promises |-> promises])
    IN  /\ initializePromise' = e.initializePromise
        /\ promises' = e.promises
        /\ bundles' = Append(bundles,
               [rawCode |-> rawCode, wrapped |-> ~hasCreateRoot(rawCode),
                awaits |-> e.returned, status |-> "init",
                early |-> \A k \in 1..Len(promises) : promises[k] = "pending",
                transformed |-> FALSE, readyAtTransform |-> FALSE])

Bundle(rawCode) ==
    /\ Len(bundles) < MaxBundles
    /\ CallBundle(rawCode)
    /\ UNCHANGED <<cacheVars, visited, files, extraLibs, requests, loadingQueue, loadedModules,
                   loads, batches, trail, analyses, applied, intelliSense, preview>>

\* the promise esbuild.initialize returned settles
InitializeSettles(k, ok) ==
    /\ k \in 1..Len(promises)
    /\ promises[k] = "pending"
    /\ promises' = [promises EXCEPT ![k] = IF ok THEN "fulfilled" ELSE "rejected"]
    /\ UNCHANGED <<cacheVars, visited, files, extraLibs, requests, loadingQueue, loadedModules,
                   loads, batches, trail, analyses, applied, initializePromise, bundles,
                   intelliSense, preview>>

\* await ensureInitialized() of bundle i completes: esbuild.transform is
\* called, or the rejection is thrown to the caller
\* (the calls that await one promise resume in the order they were made)
ResumeBundle(i) ==
    /\ i \in 1..Len(bundles)
    /\ bundles[i].status = "init"
    /\ promises[bundles[i].awaits] # "pending"
    /\ \A j \in 1..(i - 1) : bundles[j].awaits = bundles[i].awaits => bundles[j].status # "init"
    /\ bundles' = [bundles EXCEPT ![i] =
           IF promises[bundles[i].awaits] = "fulfilled"
             THEN [@ EXCEPT !.status = "transform", !.transformed = TRUE,
                            !.readyAtTransform = promises[bundles[i].awaits] = "fulfilled"]
             ELSE [@ EXCEPT !.status = "threw"]]

BundleResume(i) ==
    /\ ResumeBundle(i)
    /\ UNCHANGED <<cacheVars, visited, files, extraLibs, requests, loadingQueue, loadedModules,
                   loads, batches, trail, analyses, applied, initializePromise, promises,
                   intelliSense, preview>>

\* await esbuild.transform(..) of bundle i completes: return result.code, or
\* the error is thrown to the caller
SettleTransform(i, ok) ==
    /\ i \in 1..Len(bundles)
    /\ bundles[i].status = "transform"
    /\ bundles' = [bundles EXCEPT ![i] = [@ EXCEPT !.status = IF ok THEN "returned" ELSE "threw"]]

TransformSettles(i, ok) ==
    /\ SettleTransform(i, ok)
    /\ UNCHANGED <<cacheVars, visited, files, extraLibs, requests, loadingQueue, loadedModules,
                   loads, batches, trail, analyses, applied, initializePromise, promises,
                   intelliSense, preview>>

InitBundle ==
    /\ InitQuiet
    /\ applied = NotApplied

NextBundle ==
    \/ \E rawCode \in RawCodes : Bundle(rawCode)
    \/ \E k \in 1..Len(promises), ok \in BOOLEAN : InitializeSettles(k, ok)
    \/ \E i \in 1..Len(bundles) : BundleResume(i)
    \/ \E i \in 1..Len(bundles), ok \in BOOLEAN : TransformSettles(i, ok)

SpecBundle == InitBundle /\ [][NextBundle]_vars

\* C23: esbuild.initialize is called at most once, however many bundle()
\* calls are made and however they interleave with the initialization; every
\* bundle() call awaits the promise of that one call, and esbuild.transform
\* is called only after it was fulfilled.
C23_InitializeOnce ==
    /\ Len(promises) <= 1
    /\ \A i \in 1..Len(bundles) :
          /\ bundles[i].awaits = 1
          /\ bundles[i].awaits = initializePromise
          /\ bundles[i].transformed
             => bundles[i].readyAtTransform /\ promises[1] = "fulfilled"
          /\ bundles[i].status \in {"transform", "returned"} => bundles[i].transformed

\* three bundle() calls were made before the initialization had completed;
\* it has completed once and all three have gone on to transform
C23_Witness ==
    /\ Len(bundles) = 3
    /\ \A i \in 1..3 : bundles[i].early /\ bundles[i].transformed
    /\ Len(promises) = 1

----------------------------------------------------------------------------
(* cleanupOldEntries called on its own *)

\* the module URLs whose cache keys the storage may hold
EvictUrls == { <<"a">>, <<"b">>, <<"c">>, <<"d">> }

\* what may be stored under a cache key: nothing, an undecodable string, or a
\* record written at time 1 or at time 2
Slots == { "none", "undecodable", "old", "new" }

\* the storage holding the given slots, and a key of another feature
RECURSIVE StoreWith(_, _)
StoreWith(slot, urls) ==
    IF urls = {} THEN setItem(EmptyStorage, ForeignKey, Garbage)
    ELSE LET u    == CHOOSE x \in urls : TRUE
             rest == StoreWith(slot, urls \ {u})
         IN  CASE slot[u] = "none"        -> rest
               [] slot[u] = "undecodable" -> setItem(rest, getCacheKey(u), Garbage)
               [] slot[u] = "old"         -> SetWrite(rest, u, "X", Undefined, 1, TRUE)
               [] slot[u] = "new"         -> SetWrite(rest, u, "X", Undefined, 2, TRUE)

InitEvict ==
    /\ InitQuiet
    /\ \E slot \in [EvictUrls -> Slots] :
          applied \in [fn : {"cleanupOldEntries"},
                       arg : [ls : {StoreWith(slot, EvictUrls)},
                              order : KeyOrders(StoreWith(slot, EvictUrls))],
                       result : {<<>>}, done : {FALSE}]

CleanupOldEntries ==
    Return("cleanupOldEntries", cleanupOldEntries(applied.arg.ls, applied.arg.order))

NextEvict == CleanupOldEntries

SpecEvict == InitEvict /\ [][NextEvict]_vars

\* the decodable entries of the cache in ls
Decodable(ls) == { k \in CacheKeys(ls) : Parseable(ls[k]) }

\* the least integer not below 0.3 n
ThirtyPercentUp(n) == CHOOSE c \in 0..n : 10 * c >= 3 * n /\ (c > 0 => 10 * (c - 1) < 3 * n)

\* C24 as stated: an eviction over n decodable entries removes exactly
\* ceil(0.3 n) of them, none of them newer than an entry that stays; the
\* undecodable entries of the namespace are deleted too; keys outside the
\* namespace are untouched.
C24_Eviction ==
    (applied.fn = "cleanupOldEntries" /\ applied.done)
    => LET before  == applied.arg.ls
           after   == applied.result
           evicted == Decodable(before) \ DOMAIN after
           kept    == Decodable(before) \cap DOMAIN after
       IN  /\ Cardinality(evicted) = ThirtyPercentUp(Cardinality(Decodable(before)))
           /\ \A e \in evicted, s \in kept : before[e].timestamp <= before[s].timestamp
           /\ \A k \in CacheKeys(before) : ~Parseable(before[k]) => k \notin DOMAIN after
           /\ DOMAIN after \subseteq DOMAIN before
           /\ \A k \in DOMAIN after : after[k] = before[k]
           /\ \A k \in DOMAIN before : ~startsWith(k, CACHE_PREFIX) => k \in DOMAIN after

----------------------------------------------------------------------------
(* Claims about the order of the walk, checked under SpecWalk *)

\* the marker a call records
FrameMarker(f) ==
    IF f.fn = "processFile" THEN normalizeTypeUrl(f.arg) ELSE PackageMarker(f.arg)

\* the markers for which a fetch has been issued and not answered
Pending ==
    { key \in DOMAIN trail :
        Steps(key) # <<>> /\ Steps(key)[Len(Steps(key))].ev \in {"HEAD", "GET", "lookup"} }

\* the calls the k-th dependency of the file with the given text at url makes
DependencyMarkers(text, url, k) ==
    LET refs == referencedFiles(text)
        imps == importedFiles(text)
        name == IF k <= Len(refs) THEN refs[k] ELSE imps[k - Len(refs)]
    IN  IF k <= Len(refs) \/ name[1] = "."
          THEN { normalizeTypeUrl(URLresolve(name, url)) }
        ELSE IF ~includes(name, <<"/">>) THEN { PackageMarker(name) }
        ELSE {}

\* C25: within one processFile call the dependencies are taken one at a time,
\* the reference paths before the imports, each awaited before the next is
\* begun: of every suspended processFile call the dependencies begun are a
\* prefix of references-then-imports, the call right above it on the stack is
\* that of the dependency begun last, every dependency before that one has
\* been taken up and is not in progress; and one fetchAndAddTypes call awaits
\* one fetch at a time.
C25_DepthFirst ==
    /\ \A i \in 1..Len(loads) :
          LET stack == loads[i].stack IN
          \A j \in 1..Len(stack) :
              /\ j < Len(stack) => stack[j].wait \in {"loop", "child"}
              /\ j = Len(stack) => stack[j].wait \in {"head", "probe", "get"}
              /\ stack[j].wait = "loop"
                 => LET text  == stack[j].text
                        refs  == referencedFiles(text)
                        imps  == importedFiles(text)
                        n     == Len(refs) + Len(imps)
                        begun == n - Len(stack[j].todo)
                    IN  /\ begun \in 1..n
                        /\ \A q \in 1..Len(stack[j].todo) :
                              stack[j].todo[q].fileName
                                = IF begun + q <= Len(refs) THEN refs[begun + q]
                                  ELSE imps[begun + q - Len(refs)]
                        /\ FrameMarker(stack[j + 1]) \in DependencyMarkers(text, stack[j].arg, begun)
                        /\ \A q \in 1..(begun - 1) :
                              \A mk \in DependencyMarkers(text, stack[j].arg, q) :
                                  /\ mk \in visited
                                  /\ \A above \in (j + 1)..Len(stack) :
                                        FrameMarker(stack[above]) = mk
                                        => mk \in DependencyMarkers(text, stack[j].arg, begun)
    /\ Cardinality(Pending) <= Cardinality({ i \in 1..Len(loads) : loads[i].stack # <<>> })
    /\ TotalRequests(Machine) - Cardinality(Pending) >= 0

\* the walk of ky is inside ky.d.ts: the reference path a.d.ts has been
\* processed and registered, and the import of zod, begun after it, awaits
\* its HEAD, the only fetch in flight
C25_Witness ==
    /\ Len(loads) = 1
    /\ Len(loads[1].stack) = 3
    /\ FrameMarker(loads[1].stack[2]) = URL_KY
    /\ loads[1].stack[2].wait = "loop"
    /\ loads[1].stack[3].fn = "fetchEntry"
    /\ loads[1].stack[3].arg = zod
    /\ loads[1].stack[3].wait = "head"
    /\ Did(URL_A, "register")
    /\ Pending = { PackageMarker(zod) }

----------------------------------------------------------------------------
(* Several roots walked over a network on which every request succeeds *)

\* fetchAndAddTypes(root, monaco) for a root not asked for before
WalkRoot(root) ==
    /\ Len(loads) < MaxRoots
    /\ \A i \in 1..Len(loads) : loads[i].name # root
    /\ LET a == Advance(Machine, << Frame("fetchEntry", root, <<>>, "call") >>, now)
       IN  /\ SetMachine(a.m)
           /\ loads' = Append(loads, [LoadRecord(root, 0) EXCEPT
                                         !.status = "running", !.stack = a.stack,
                                         !.invoked = TRUE])
    /\ opCount' = opCount + 1
    /\ UNCHANGED <<loadingQueue, loadedModules, batches, analyses, applied, bundlerVars, now, cacheCall, lastOp, ticks>>

InitOrder ==
    /\ InitWalk
    /\ localStorage = EmptyStorage

NextOrder ==
    \/ \E root \in WalkSpecifiers : WalkRoot(root)
    \/ \E i \in 1..Len(loads) : HeadResponse(i, "ok")
    \/ \E i \in 1..Len(loads) : GetResponse(i, "ok", TRUE)

SpecOrder == InitOrder /\ [][NextOrder]_vars

\* a walk run to its end without another one in between, every fetch answered
\* with success
RECURSIVE Settle(_, _, _)
Settle(m, stack, t) ==
    IF stack = <<>> THEN m
    ELSE LET wait == stack[Len(stack)].wait
             a == IF wait = "head" THEN AfterHead(m, stack, "ok", t)
                  ELSE AfterGet(m, stack, "ok", CHOOSE order \in ScanOrders(m.ls) : TRUE, TRUE, t)
         IN  Settle(a.m, a.stack, t)

\* the roots of a sequence walked one after the other
RECURSIVE OneAfterAnother(_, _, _)
OneAfterAnother(m, roots, t) ==
    IF roots = <<>> THEN m
    ELSE LET a == Advance(m, << Frame("fetchEntry", Head(roots), <<>>, "call") >>, t)
         IN  OneAfterAnother(Settle(a.m, a.stack, t), Tail(roots), t)

\* the orders in which the roots asked for can be taken
RootOrders ==
    { s \in [1..Len(loads) -> { loads[i].name : i \in 1..Len(loads) }] :
        \A i, j \in 1..Len(loads) : i # j => s[i] # s[j] }

\* the page before any walk
FreshMachine ==
    [visited |-> {}, files |-> EmptyStorage, extraLibs |-> EmptyStorage, ls |-> EmptyStorage,
     hit |-> 0, miss |-> 0, requests |-> EmptyStorage, trail |-> Untraced]

\* C26: with no request failing, once the walks of a set of roots are
\* complete the registered paths and their content are those that walking
\* the roots one after the other, in any order, registers: the map does not
\* depend on the order or on the interleaving of the walks.
C26_OrderIndependent ==
    AllDone => \A order \in RootOrders :
                   extraLibs = OneAfterAnother(FreshMachine, order, 0).extraLibs

\* the walks of ky and zod overlapped: ky.d.ts was first reached from a.d.ts
\* by its reference path and registered without the package hint
C26_Overlap ==
    /\ AllDone
    /\ { loads[i].name : i \in 1..Len(loads) } = {ky, zod}
    /\ VirtualPath(URL_KY, <<>>) \in DOMAIN extraLibs
    /\ VirtualPath(URL_KY, ky) \notin DOMAIN extraLibs

----------------------------------------------------------------------------
(* The registrations of one processFile call, on a page with nothing registered *)

\* the URLs processFile is called with: those of the normalization, one on
\* another origin and one whose query ends in ".d.ts"
PathUrls ==
    { stem \o ending : stem \in UrlStems, ending \in UrlEndings }
    \cup { <<"h","t","t","p","s",":","/","/","c","d","n",".","e","s","m",".","s","h","/","v","1","/","b",".","d",".","t","s">>,
           <<"h","t","t","p","s",":","/","/","c","d","n",".","e","s","m",".","s","h","/","v","1","/","b","?","d","t","s">>,
           <<"h","t","t","p","s",":","/","/","e","s","m",".","s","h","/","v","1","/","c","?","f","i","l","e","=","c",".","d",".","t","s">> }

\* the package-name hints: none (or the empty string, which counts as none)
\* and two package names
PathHints == { <<>>, ky, vapor }

\* the text of the file registered
PathText == "T"

InitPath ==
    /\ InitQuiet
    /\ applied \in [fn : {"processFile"},
                    arg : [url : PathUrls, packageName : PathHints],
                    result : {<<>>}, done : {FALSE}]

\* processFile(url, packageName) from its first line to the registrations,
\* the text being at hand
ProcessFileRegisters ==
    Return("processFile",
           Register(FreshMachine, normalizeTypeUrl(applied.arg.url), applied.arg.packageName,
                    PathText).extraLibs)

NextPath == ProcessFileRegisters

SpecPath == InitPath /\ [][NextPath]_vars

\* the part of s before its first "?"
BeforeQuery(s) ==
    LET at == { k \in 1..Len(s) : s[k] = "?" }
    IN  IF at = {} THEN s ELSE SubSeq(s, 1, (CHOOSE k \in at : \A j \in at : k <= j) - 1)

\* s with the origin https://esm.sh/ at its start replaced by
\* file:///node_modules/
Rewritten(s) ==
    IF Len(s) >= 15 /\ SubSeq(s, 1, 15) = <<"h","t","t","p","s",":","/","/","e","s","m",".","s","h","/">>
      THEN <<"f","i","l","e",":","/","/","/","n","o","d","e","_","m","o","d","u","l","e","s","/">> \o SubSeq(s, 16, Len(s))
      ELSE s

\* s ends with ".d.ts"
EndsInDts(s) == Len(s) >= 5 /\ SubSeq(s, Len(s) - 4, Len(s)) = <<".","d",".","t","s">>

----------------------------------------------------------------------------
(* loadLibrary and clearCache called in turn *)

\* the names loaded again
ResetNames == {ky, zod}

\* loadLibrary(libraryName)
LoadLibraryAgain(libraryName) ==
    /\ opCount < MaxResetCalls
    /\ SetManagerState(loadLibrary(ManagerState, libraryName, 0, now))
    /\ opCount' = opCount + 1
    /\ UNCHANGED <<batches, analyses, applied, bundlerVars, now, cacheCall, lastOp, ticks>>

\* clearCache()
ClearCacheAgain ==
    /\ opCount < MaxResetCalls
    /\ localStorage' = clear(localStorage)
    /\ loadedModules' = {}
    /\ opCount' = opCount + 1
    /\ UNCHANGED <<visited, files, extraLibs, requests, hitCount, missCount, loadingQueue,
                   loads, batches, analyses, applied, bundlerVars, now, cacheCall, lastOp, ticks, trail>>

InitReset ==
    /\ Init
    /\ localStorage = EmptyStorage

NextReset ==
    \/ \E libraryName \in ResetNames : LoadLibraryAgain(libraryName)
    \/ ClearCacheAgain
    \/ \E i \in 1..Len(loads), outcome \in FetchOutcomes : HeadResponse(i, outcome)
    \/ \E i \in 1..Len(loads), outcome \in FetchOutcomes : GetResponse(i, outcome, TRUE)
    \/ \E i \in 1..Len(loads) : LoadLibraryReturn(i)

SpecReset == InitReset /\ [][NextReset]_vars

\* an earlier loadLibrary(name) has returned
Attempted(name) ==
    \E i \in 1..Len(loads) : loads[i].name = name /\ loads[i].status = "returned"

\* this step is a call loadLibrary(name)
CallsLoadLibrary(name) ==
    /\ Len(loads') = Len(loads) + 1
    /\ loads'[Len(loads')].name = name

\* C28: a loadLibrary(name) for a supported name that was attempted before
\* and that clearCache() has since taken out of loadedModules issues the
\* HEAD request for the package again.
C28_ResetRetries ==
    [][\A name \in ResetNames :
          (/\ Attempted(name)
           /\ name \notin loadedModules
           /\ name \notin loadingQueue
           /\ CallsLoadLibrary(name))
          => Count(requests', <<"resolve", ESM_SH \o name>>)
               > Count(requests, <<"resolve", ESM_SH \o name>>)]_vars

----------------------------------------------------------------------------
(* The registrations of successive processFile calls on one page *)

URL_KY_INDEX == <<"h","t","t","p","s",":","/","/","e","s","m",".","s","h","/","k","y","/","i","n","d","e","x",".","d",".","t","s">>

\* the URLs processed: two with one virtual path, and two that share their
\* virtual path when the first is processed with the hint ky
RegisterUrls == {URL_E, URL_E2, URL_KY, URL_KY_INDEX}

\* the hints they are processed with
RegisterHints == { <<>>, ky }

\* what the remote side serves for them
RegisterTexts == {"T", "U"}

\* processFile(url, packageName) for a URL not visited, once its text is at
\* hand: the marker and the registrations
ProcessFileVisit(url, packageName, text) ==
    /\ ~isVisited(Machine, url)
    /\ SetMachine(Register(markVisited(Machine, url), url, packageName, text))
    /\ UNCHANGED <<loadingQueue, loadedModules, loads, batches, analyses, applied, bundlerVars,
                   now, cacheCall, lastOp, ticks, opCount>>

InitRegister ==
    /\ InitWalk
    /\ localStorage = EmptyStorage

NextRegister ==
    \E url \in RegisterUrls, packageName \in RegisterHints, text \in RegisterTexts :
        ProcessFileVisit(url, packageName, text)

SpecRegister == InitRegister /\ [][NextRegister]_vars

\* the number of addExtraLib calls made for a path
Adds(path) == Times(path, "add")

\* C29: no step of the walker removes a registration: the registered paths
\* only grow, a path's content changes only in a step that calls addExtraLib
\* for it once, and addExtraLib is called for a registered path only with
\* content that differs from the one it holds.
C29_OnlyGrows ==
    [][/\ DOMAIN extraLibs \subseteq DOMAIN extraLibs'
       /\ \A path \in DOMAIN extraLibs :
             /\ extraLibs'[path] # extraLibs[path] => Adds(path)' = Adds(path) + 1
             /\ Adds(path)' # Adds(path) => extraLibs'[path] # extraLibs[path]
       /\ \A path \in DOMAIN extraLibs' \ DOMAIN extraLibs :
             Adds(path) = 0 /\ Adds(path)' = 1]_vars

\* the entry of ky was registered with "T" and its package paths were then
\* given "U" by another file, while the path of e.d.ts kept its registration
C29_Witness ==
    /\ Events(VirtualPath(URL_KY, ky)) = << [ev |-> "add", text |-> "T"], [ev |-> "add", text |-> "U"] >>
    /\ extraLibs[VirtualPath(URL_KY, ky)] = "U"
    /\ VirtualPath(URL_E, <<>>) \in DOMAIN extraLibs
    /\ Cardinality(DOMAIN extraLibs) = 3

----------------------------------------------------------------------------
(* Claims about fetchEntry, checked under SpecWalk *)

\* https://esm.sh/<specifier>
BaseUrl(specifier) == <<"h","t","t","p","s",":","/","/","e","s","m",".","s","h","/">> \o specifier

\* where the declarations of a package are, by the answer to its HEAD: ky
\* names /v1/ky.d.ts in X-TypeScript-Types, the others name nothing
DeclaredAt(specifier) ==
    IF specifier = ky THEN <<"h","t","t","p","s",":","/","/","e","s","m",".","s","h","/","v","1","/","k","y",".","d",".","t","s">>
    ELSE BaseUrl(specifier) \o <<"?","d","t","s">>

\* file:///node_modules/<specifier>/index.d.ts
EntryPath(specifier) == <<"f","i","l","e",":","/","/","/","n","o","d","e","_","m","o","d","u","l","e","s","/">> \o specifier \o <<"/","i","n","d","e","x",".","d",".","t","s">>

\* processFile stored the text of url under the virtual path
StoredAt(url, path) ==
    \E k \in 1..Len(Events(url)) : Events(url)[k].ev = "register" /\ Events(url)[k].text = path

\* C30: fetchEntry(specifier) sends one HEAD to https://esm.sh/<specifier>
\* before anything else; when it fails nothing is fetched from the fallback
\* URL and nothing is registered for the package; when it succeeds
\* processFile is called for the location the header names, resolved against
\* the base URL, or without a header for https://esm.sh/<specifier>?dts, in
\* both cases with the specifier as the package name, so that only this file
\* is ever registered at the package's entry path.
C30_FetchEntry ==
    /\ \A p \in Packages :
          LET steps == Steps(PackageMarker(p)) IN
          /\ Count(requests, <<"resolve", BaseUrl(p)>>) = (IF steps = <<>> THEN 0 ELSE 1)
          /\ steps # <<>> => steps[1].ev = "HEAD"
          /\ Did(PackageMarker(p), "HEADfail")
             => /\ Len(steps) = 2
                /\ Count(requests, <<"get", BaseUrl(p) \o <<"?","d","t","s">> >>) = 0
                /\ EntryPath(p) \notin DOMAIN extraLibs
                /\ PackagePath(p) \notin DOMAIN extraLibs
          /\ Did(PackageMarker(p), "HEADok")
             => /\ Len(steps) = 2
                /\ Events(DeclaredAt(p)) # <<>>
                /\ (Did(DeclaredAt(p), "register") /\ ~Did(DeclaredAt(p), "skip"))
                   => StoredAt(DeclaredAt(p), EntryPath(p))
          /\ \A url \in DOMAIN trail :
                StoredAt(url, EntryPath(p))
                => url = DeclaredAt(p) /\ Did(PackageMarker(p), "HEADok")
    /\ \A i \in 1..Len(loads) :
          LET stack == loads[i].stack IN
          \A j \in 1..Len(stack) :
              stack[j].fn = "fetchEntry" /\ stack[j].wait = "child"
              => /\ Did(PackageMarker(stack[j].arg), "HEADok")
                 /\ j < Len(stack)
                 /\ stack[j + 1].fn = "processFile"
                 /\ stack[j + 1].arg = DeclaredAt(stack[j].arg)
                 /\ stack[j + 1].packageName = stack[j].arg
    /\ \A r \in DOMAIN requests :
          r[1] = "resolve" => \E p \in Packages : r[2] = BaseUrl(p)

\* the walk of zod is over: its HEAD succeeded without the header and the
\* fallback https://esm.sh/zod?dts was registered as the entry of zod; the
\* HEAD for its import ky failed and nothing was registered for ky
C30_Witness ==
    /\ AllDone
    /\ loads[1].name = zod
    /\ Did(PackageMarker(zod), "HEADok")
    /\ StoredAt(URL_ZOD, EntryPath(zod))
    /\ Did(PackageMarker(ky), "HEADfail")
    /\ EntryPath(ky) \notin DOMAIN extraLibs
    /\ Count(requests, <<"resolve", BaseUrl(ky)>>) = 1

----------------------------------------------------------------------------
(* The code analyzer: analyzeAndLoadTypes called on every settled edit *)

\* the debounce timer of setupCodeAnalyzer fires: analyzeAndLoadTypes(
\* model.getValue()) is called and not awaited, imports being
\* extractImports of the code, to its first await or its return
AnalyzeOnChange(imports) ==
    /\ Len(analyses) < MaxEdits
    /\ LET rec == AnalysisRecord(ManagerState, imports) IN
       IF Len(rec.newLibraries) = 0
         THEN /\ analyses' = Append(analyses, [rec EXCEPT !.status = "returned"])
              /\ UNCHANGED <<visited, files, extraLibs, requests, localStorage, hitCount,
                             missCount, trail, loadingQueue, loadedModules, loads, batches>>
         ELSE StartChunk(Len(analyses) + 1, rec, rec.chunks[1])
    /\ opCount' = opCount + 1
    /\ UNCHANGED <<now, cacheCall, lastOp, ticks, applied, bundlerVars>>

\* the imports of the codes the editor holds when the timer fires: those
\* analysed above, and a code whose only import is not on the allow-list
EditedImports == ImportLists \cup { << vue >> }

InitEdits ==
    /\ Init
    /\ localStorage = EmptyStorage

NextEdits ==
    \/ \E imports \in EditedImports : AnalyzeOnChange(imports)
    \/ \E i \in 1..Len(loads), outcome \in FetchOutcomes : HeadResponse(i, outcome)
    \/ \E i \in 1..Len(loads), outcome \in FetchOutcomes : GetResponse(i, outcome, TRUE)
    \/ \E i \in 1..Len(loads) : LoadLibraryReturn(i)
    \/ \E b \in 1..Len(batches) : LoadLibrariesReturn(b)
    \/ \E a \in 1..Len(analyses) : AnalyzeResume(a)

SpecEdits == InitEdits /\ [][NextEdits]_vars

\* C31: the names in loadingQueue are never more than maxConcurrentLoads,
\* whatever analyzeAndLoadTypes invocations are under way.
C31_BoundedLoads == Cardinality(loadingQueue) <= maxConcurrentLoads

----------------------------------------------------------------------------
(* The built-ins of the host in the output of extractImports, checked under
   SpecExtract *)

\* C32: no name extractImports returns is one of fs, path, os, crypto, util,
\* events.
C32_NoBuiltIns ==
    applied.fn = "extractImports" /\ applied.done
    => \A k \in 1..Len(applied.result) :
          applied.result[k] \notin { <<"f","s">>, <<"p","a","t","h">>, <<"o","s">>, <<"c","r","y","p","t","o">>, <<"u","t","i","l">>, <<"e","v","e","n","t","s">> }

\* the capitalized identifiers in the named imports of a code
ComponentsOf(imports) ==
    UNION { { componentNames(namedImports(imports)[k].names)[j] :
                j \in 1..Len(componentNames(namedImports(imports)[k].names)) } :
            k \in 1..Len(namedImports(imports)) }

\* C33: once an analyzeAndLoadTypes call has returned, a component type is
\* registered for every capitalized identifier of the named imports of its
\* code, whether or not the call found a library to load.
C33_ComponentsRegistered ==
    \A a \in 1..Len(analyses) :
        analyses[a].status = "returned"
        => \A name \in ComponentsOf(analyses[a].imports) :
              ComponentPath(name) \in DOMAIN extraLibs

----------------------------------------------------------------------------
(* Libraries with shared dependencies loaded at the same time, with the
   history of the walks kept *)

\* the libraries loaded: each imports the other
SharedNames == {ky, zod}

NextShared ==
    \/ \E libraryName \in SharedNames : LoadLibrary(libraryName)
    \/ \E i \in 1..Len(loads), outcome \in FetchOutcomes : HeadResponse(i, outcome)
    \/ \E i \in 1..Len(loads), outcome \in FetchOutcomes : GetResponse(i, outcome, TRUE)
    \/ \E i \in 1..Len(loads) : LoadLibraryReturn(i)

SpecShared == InitOrder /\ [][NextShared]_vars

\* what the walk goes on to from a marker it is done with: from a package
\* whose HEAD succeeded its entry file, from a file that was obtained and
\* registered its dependencies
GoesOnTo(marker) ==
    IF \E p \in Packages : marker = PackageMarker(p)
      THEN IF Did(marker, "HEADok")
             THEN { DeclaredAt(p) : p \in { q \in Packages : marker = PackageMarker(q) } }
             ELSE {}
    ELSE IF marker \in FileUrls /\ Did(marker, "register") THEN ChildMarkers(marker)
    ELSE {}

RECURSIVE WalkClosure(_)
WalkClosure(markers) ==
    LET more == markers \cup UNION { GoesOnTo(marker) : marker \in markers }
    IN  IF more = markers THEN markers ELSE WalkClosure(more)

\* the packages and files reachable from the entry point of a library
\* through fetches that have not failed
ReachableFrom(name) == WalkClosure({ PackageMarker(name) })

\* a fetch for the marker has been sent by some walk and is not answered
AwaitsFetch(marker) ==
    \E i \in 1..Len(loads) :
        /\ loads[i].stack # <<>>
        /\ FrameMarker(loads[i].stack[Len(loads[i].stack)]) = marker
        /\ loads[i].stack[Len(loads[i].stack)].wait \in {"head", "probe", "get"}

\* C34: when a loadLibrary(name) call has resolved true and name is in
\* loadedModules, every file reachable from the entry point of name through
\* fetches that did not fail is registered: none is still being fetched.
C34_RegisteredOnResolve ==
    \A i \in 1..Len(loads) :
        (/\ loads[i].status = "returned"
         /\ loads[i].result
         /\ loads[i].name \in loadedModules)
        => \A marker \in ReachableFrom(loads[i].name) :
              /\ ~AwaitsFetch(marker)
              /\ marker \in FileUrls => (Did(marker, "register") \/ Did(marker, "GETfail"))

----------------------------------------------------------------------------
(* The loading set, checked under SpecSharedLive *)

\* the walk of load i is over and its loadLibrary has not resumed yet
Settled(i) ==
    /\ i \in 1..Len(loads)
    /\ loads[i].status = "running"
    /\ loads[i].stack = <<>>

\* a settled await is resumed: weak fairness of LoadLibraryReturn, written
\* with its enabling condition
ReturnsTaken ==
    \/ []<>(~ \E i \in 1..Len(loads) : Settled(i))
    \/ []<><<\E i \in 1..Len(loads) : LoadLibraryReturn(i)>>_vars

\* every request is answered and every settled await is resumed
SpecSharedLive == SpecShared /\ RequestsAnswered /\ ReturnsTaken

\* C35: a name in loadingQueue leaves it, whether its fetches succeed or
\* fail; when every loadLibrary call made has returned loadingQueue is empty;
\* and no name is in loadingQueue and in loadedModules at once.
C35_LoadingSetDrains ==
    /\ [](loadingQueue \cap loadedModules = {})
    /\ []((\A i \in 1..Len(loads) : loads[i].status = "returned") => loadingQueue = {})
    /\ \A name \in SharedNames : (name \in loadingQueue) ~> (name \notin loadingQueue)

\* ky and zod were loading at the same time, the entry of zod could not be
\* resolved, both calls have returned and the loading set is empty
C35_Witness ==
    /\ Len(loads) = 2
    /\ loads[1].name = ky
    /\ loads[2].name = zod
    /\ loads[2].wasLoading = FALSE
    /\ loads[2].invoked
    /\ loads[2].entryFailed
    /\ \A i \in 1..2 : loads[i].status = "returned"
    /\ loadedModules = {ky, zod}
    /\ loadingQueue = {}

----------------------------------------------------------------------------
(* The counters of the cache, checked under SpecCache *)

\* the hitRate of getStats(), in hundredths of a percent:
\* Math.round((hitCount / totalRequests) * 100 * 100) / 100, or 0
hitRate(hits, misses) ==
    LET totalRequests == hits + misses
    IN  IF totalRequests > 0
          THEN (2 * hits * 10000 + totalRequests) \div (2 * totalRequests)
          ELSE 0

\* C36: a get that completes adds one to exactly one of hitCount and
\* missCount, to hitCount exactly when it returns content; no other step of
\* the cache (set, remove, clear, the start of a get that awaits its probe)
\* changes either counter, so their sum is the number of gets completed; and
\* getStats reports a hitRate of 0 as long as no get has completed.
C36_Counters ==
    /\ [][IF lastOp'.op = "get"
            THEN /\ hitCount' + missCount' = hitCount + missCount + 1
                 /\ hitCount' \in {hitCount, hitCount + 1}
                 /\ missCount' \in {missCount, missCount + 1}
                 /\ (hitCount' = hitCount + 1) <=> (lastOp'.result # Undefined)
            ELSE hitCount' = hitCount /\ missCount' = missCount]_vars
    /\ [](hitCount + missCount + (IF cacheCall.op = "get" THEN 1 ELSE 0) <= opCount)
    /\ [](hitCount + missCount = 0 => hitRate(hitCount, missCount) = 0)

\* a set, then a get of the same URL answered from the cache after its probe,
\* then a get of a URL that is not stored: one hit and one miss
C36_Witness ==
    /\ hitCount = 1
    /\ missCount = 1
    /\ opCount = 3
    /\ lastOp.op = "get"
    /\ lastOp.result = Undefined
    /\ cacheCall = NoCall
    /\ hitRate(hitCount, missCount) = 5000

----------------------------------------------------------------------------
(* The cache with the successful writes of each URL recorded: trail[u] is   *)
(* the sequence of contents that set(u, ..) has written                     *)

\* the history after a step of the cache
Written(op) ==
    IF op.op = "set" /\ op.ok
      THEN setItem(trail, op.url,
                   Append(IF op.url \in DOMAIN trail THEN trail[op.url] ELSE <<>>,
                          [ev |-> "set", text |-> op.content]))
      ELSE trail

\* the calls of the cache, the clock standing still
NextKeys ==
    /\ \/ \E u \in CacheUrls : CacheGet(u)
       \/ \E resp \in ProbeResponses : CacheGetResume(resp)
       \/ \E u \in CacheUrls, content \in Texts, etag \in ETagOpts : CacheSet(u, content, etag)
       \/ \E ok \in BOOLEAN : CacheSetWrite(ok)
       \/ \E u \in CacheUrls : CacheRemove(u)
       \/ CacheClear
    /\ trail' = Written(lastOp')
    /\ UNCHANGED <<visited, files, extraLibs, requests, loadingQueue, loadedModules, loads,
                   batches, analyses, applied, bundlerVars>>

SpecKeys == InitOrder /\ [][NextKeys]_vars

\* the content last written for a URL, Undefined if none was
LastWritten(u) == IF u \in DOMAIN trail THEN trail[u][Len(trail[u])].text ELSE Undefined

\* two URLs that differ only where neither has a letter or a digit
Colliding(u, v) ==
    /\ Len(u) = Len(v)
    /\ \A i \in 1..Len(u) : u[i] = v[i] \/ (u[i] \notin Alnum /\ v[i] \notin Alnum)

\* C37 as stated: the content a get returns for a URL is the content last
\* written by set for that same URL.
C37_OwnContent ==
    (lastOp.op = "get" /\ lastOp.result # Undefined)
        => lastOp.result = LastWritten(lastOp.url)

\* C37: the content a get returns for a URL is the content last written by
\* set for that URL or for a URL that differs from it only in characters
\* that are neither letters nor digits; where no such other URL has been
\* written, it is the content last written for the URL itself.
C37_SameKeyContent ==
    (lastOp.op = "get" /\ lastOp.result # Undefined)
        => /\ \E v \in DOMAIN trail :
                Colliding(lastOp.url, v) /\ lastOp.result = LastWritten(v)
           /\ (\A v \in DOMAIN trail : Colliding(lastOp.url, v) => v = lastOp.url)
                => lastOp.result = LastWritten(lastOp.url)

\* "c" and "a.b" have both been written, with different contents, and the
\* get of "c" returns its own
C37_Witness ==
    /\ lastOp.op = "get"
    /\ lastOp.url = <<"c">>
    /\ lastOp.result = "X"
    /\ <<"a",".","b">> \in DOMAIN trail
    /\ LastWritten(<<"a",".","b">>) = "BIG"

----------------------------------------------------------------------------
(* IntelliSenseManager.initialize *)

\* const essentialLibs = ["react", "react-dom"]
essentialLibs == << react, reactDom >>

\* the keys of basicComponents and of vaporUIComponents
basicComponents ==
    << <<"B","u","t","t","o","n">>,
       <<"I","n","p","u","t">>,
       <<"C","a","r","d">>,
       <<"M","o","d","a","l">>,
       <<"T","o","o","l","t","i","p">>,
       <<"S","p","i","n","n","e","r">>,
       <<"A","l","e","r","t">>,
       <<"B","a","d","g","e">>,
       <<"A","v","a","t","a","r">>,
       <<"D","r","o","p","d","o","w","n">> >>

vaporUIComponents ==
    << <<"V","B","u","t","t","o","n">>,
       <<"V","I","n","p","u","t">>,
       <<"V","B","o","x">>,
       <<"V","S","t","a","c","k">>,
       <<"V","T","e","x","t">>,
       <<"V","H","e","a","d","i","n","g">>,
       <<"V","F","l","e","x">> >>

\* registerComponents(components) for components given with their props
\* types: the declaration text registered is known by the table it is from
RECURSIVE registerTable(_, _, _)
registerTable(libs, names, table) ==
    IF names = <<>> THEN libs
    ELSE registerTable(setItem(libs, ComponentPath(Head(names)), table), Tail(names), table)

\* registerCommonComponents()
registerCommonComponents(libs) ==
    registerTable(registerTable(libs, basicComponents, "basicComponents"),
                  vaporUIComponents, "vaporUIComponents")

REACT_TYPES == NODE_MODULES \o <<"@","t","y","p","e","s","/","r","e","a","c","t","/">>

\* loadEssentialLibraries() after await this.loadLibraries(essentialLibs):
\* the three addExtraLib calls and registerCommonComponents
loadEssentialLibrariesResume(libs) ==
    registerCommonComponents(
        setItem(setItem(setItem(libs,
            REACT_TYPES \o <<"j","s","x","-","r","u","n","t","i","m","e",".","d",".","t","s">>, "jsxRuntimeTypes"),
            REACT_TYPES \o <<"j","s","x","-","g","l","o","b","a","l",".","d",".","t","s">>, "reactJSXTypes"),
            REACT_TYPES \o <<"n","a","m","e","s","p","a","c","e",".","d",".","t","s">>, "reactNamespaceTypes"))

\* One initialize() invocation:
\*   status   "loading" (at await this.loadEssentialLibraries()) | "returned"
\*   batch    its loadLibraries call (0: it returned at the isInitialized test)
InitializeRecord(status, batch) == [status |-> status, batch |-> batch]

\* initialize(), to its return at the isInitialized test, or through
\* setupCompilerOptions() to the await of loadLibraries in
\* loadEssentialLibraries()
Initialize ==
    /\ Len(intelliSense.calls) < MaxInitCalls
    /\ IF intelliSense.isInitialized
         THEN /\ intelliSense' = [intelliSense EXCEPT
                     !.calls = Append(@, InitializeRecord("returned", 0))]
              /\ UNCHANGED <<visited, files, extraLibs, requests, localStorage, hitCount,
                             missCount, trail, loadingQueue, loadedModules, loads, batches>>
         ELSE /\ intelliSense' = [intelliSense EXCEPT
                     !.compilerOptions = @ + 1,
                     !.calls = Append(@, InitializeRecord("loading", Len(batches) + 1))]
              /\ SetManagerState(MapLoadLibrary(ManagerState, essentialLibs, 1,
                                                Len(batches) + 1, now))
              /\ batches' = Append(batches,
                     [names |-> essentialLibs,
                      members |-> [k \in 1..Len(essentialLibs) |-> Len(loads) + k],
                      status |-> "pending", results |-> <<>>])
    /\ UNCHANGED <<now, cacheCall, lastOp, ticks, opCount, analyses, applied,
                   initializePromise, promises, bundles, preview>>

\* await this.loadLibraries(essentialLibs) of initialize call c completes:
\* the rest of loadEssentialLibraries, setupCodeAnalyzer() for the one model
\* of the editor, and this.isInitialized = true
InitializeResume(c) ==
    /\ c \in 1..Len(intelliSense.calls)
    /\ intelliSense.calls[c].status = "loading"
    /\ batches[intelliSense.calls[c].batch].status = "done"
    /\ extraLibs' = loadEssentialLibrariesResume(extraLibs)
    /\ intelliSense' = [intelliSense EXCEPT
           !.calls[c] = [@ EXCEPT !.status = "returned"],
           !.listeners = @ + 1,
           !.isInitialized = TRUE]
    /\ UNCHANGED <<cacheVars, visited, files, requests, loadingQueue, loadedModules, loads,
                   batches, trail, analyses, applied, initializePromise, promises, bundles,
                   preview>>

NextInitialize ==
    \/ Initialize
    \/ \E i \in 1..Len(loads), outcome \in FetchOutcomes : HeadResponse(i, outcome)
    \/ \E i \in 1..Len(loads) : LoadLibraryReturn(i)
    \/ \E b \in 1..Len(batches) : LoadLibrariesReturn(b)
    \/ \E c \in 1..Len(intelliSense.calls) : InitializeResume(c)

SpecInitialize == InitOrder /\ [][NextInitialize]_vars

\* the initialize() calls that went past the isInitialized test
RanSteps == {c \in 1..Len(intelliSense.calls) : intelliSense.calls[c].batch # 0}

\* C38: the compiler options are set at most once, the essential libraries
\* are loaded by at most one initialize() call and the content listener is
\* attached to the editor model at most once, also when initialize() is
\* called again before the first call has completed; and a call made after
\* an initialize() has succeeded does nothing.
C38_InitializeOnce ==
    /\ intelliSense.compilerOptions <= 1
    /\ Cardinality(RanSteps) <= 1
    /\ intelliSense.listeners <= 1

----------------------------------------------------------------------------
(* Preview: the effect that transpiles the code prop into srcDoc *)

\* what setSrcDoc is given by a run of the effect: htmlTemplate(transformed)
\* or the <pre> of the error, known by the code the run transpiled
Rendered(rawCode, kind) == [code |-> rawCode, kind |-> kind]

\* Preview is rendered with a code prop that differs from the last one (the
\* first render mounts it): the effect runs transpileAndRender() to its
\* await bundle(code)
Render(code) ==
    /\ Len(preview.runs) < MaxRenders
    /\ code # preview.code
    /\ CallBundle(code)
    /\ preview' = [preview EXCEPT !.code = code, !.runs = Append(@, Len(bundles) + 1)]
    /\ UNCHANGED <<cacheVars, visited, files, extraLibs, requests, loadingQueue, loadedModules,
                   loads, batches, trail, analyses, applied, intelliSense>>

\* await ensureInitialized() of the bundle call of a run completes:
\* esbuild.transform is called, or the rejection reaches the catch block of
\* the run, which sets srcDoc
PreviewResume(i) ==
    /\ ResumeBundle(i)
    /\ preview' = IF promises[bundles[i].awaits] = "fulfilled"
                    THEN preview
                    ELSE [preview EXCEPT !.srcDoc = Rendered(bundles[i].rawCode, "error")]
    /\ UNCHANGED <<cacheVars, visited, files, extraLibs, requests, loadingQueue, loadedModules,
                   loads, batches, trail, analyses, applied, initializePromise, promises,
                   intelliSense>>

\* await esbuild.transform(..) of the bundle call of a run completes: the
\* run sets srcDoc to the page of the output, or to the error
PreviewSettles(i, ok) ==
    /\ SettleTransform(i, ok)
    /\ preview' = [preview EXCEPT
           !.srcDoc = Rendered(bundles[i].rawCode, IF ok THEN "html" ELSE "error")]
    /\ UNCHANGED <<cacheVars, visited, files, extraLibs, requests, loadingQueue, loadedModules,
                   loads, batches, trail, analyses, applied, initializePromise, promises,
                   intelliSense>>

NextPreview ==
    \/ \E code \in RawCodes : Render(code)
    \/ \E k \in 1..Len(promises), ok \in BOOLEAN : InitializeSettles(k, ok)
    \/ \E i \in 1..Len(bundles) : PreviewResume(i)
    \/ \E i \in 1..Len(bundles), ok \in BOOLEAN : PreviewSettles(i, ok)

SpecPreview == InitBundle /\ [][NextPreview]_vars

\* every run of the effect has set srcDoc
AllSettled ==
    \A k \in 1..Len(preview.runs) : bundles[preview.runs[k]].status \in {"returned", "threw"}

\* C39: once every transpilation the effect has started has settled, the
\* srcDoc displayed is the page or the error of the latest code prop: a run
\* for an older code that settles later does not replace what the run for a
\* newer code has set.
C39_LatestShown ==
    (preview.runs # <<>> /\ AllSettled) => preview.srcDoc.code = preview.code

====
